---- MODULE Spec2Model ----
(***************************************************************************)
(* A model of pyhcl2's expression evaluator (src/src/pyhcl2/eval.py) and   *)
(* of the value lattice it computes over (src/src/pyhcl2/values.py).       *)
(*                                                                         *)
(* Python objects that the evaluator mutates in place (the dict behind an  *)
(* Object, the list behind an Array, the variables of an EvaluationScope)  *)
(* live in a heap: a value of type Array or Object holds the address of    *)
(* its raw container, so that two values made by with_span from one        *)
(* another share it, as dataclasses.replace makes them share _raw.         *)
(*                                                                         *)
(* A source span is modelled by a positive number that identifies the AST  *)
(* node it belongs to; NoSpan is Python's None.                            *)
(***************************************************************************)
EXTENDS Integers, Sequences, FiniteSets, TLC

NoSpan == 0
NoErr == "ok"
NoneKey == "<None>"

(***************************************************************************)
(* Values (values.py).  The tag t is Value.type_name.                      *)
(***************************************************************************)
Null(sp) == [t |-> "null", span |-> sp]
Boolean(b, sp) == [t |-> "boolean", b |-> b, span |-> sp]
Integer(i, sp) == [t |-> "integer", i |-> i, span |-> sp]
String(s, sp) == [t |-> "string", s |-> s, span |-> sp]
\* Float._raw is a Python float, an IEEE 754 double: raw is one of the
\* doubles of the arithmetic section below.
Float(raw, sp) == [t |-> "float", raw |-> raw, span |-> sp]
Array(ref, sp) == [t |-> "array", ref |-> ref, span |-> sp]
Object(ref, sp) == [t |-> "object", ref |-> ref, span |-> sp]
Unknown(direct, indirect, sp) == [t |-> "unknown", direct |-> direct, indirect |-> indirect, span |-> sp]
VariableReference(key, sp) == [key |-> key, span |-> sp]

with_span(v, sp) == [v EXCEPT !.span = sp]

type_name(v) == v.t

\* Unknown.references
references(u) == u.direct \cup u.indirect

\* The raw containers of the heap: a Python list, a Python dict (insertion
\* ordered; keys are String values compared by their text).
ListCell(items) == [c |-> "list", items |-> items]
DictCell(keys, vals) == [c |-> "dict", keys |-> keys, vals |-> vals]

RECURSIVE dict_index(_, _, _)
dict_index(keys, s, i) ==
    IF i > Len(keys) THEN 0
    ELSE IF keys[i].s = s THEN i
    ELSE dict_index(keys, s, i + 1)

\* dict.__contains__ / dict.get: the position of the key whose text is s, or 0
dict_find(cell, s) == dict_index(cell.keys, s, 1)

\* dict.__setitem__: an existing key keeps its place (and its key object)
dict_set(cell, key, v) ==
    LET i == dict_find(cell, key.s)
    IN IF i = 0
       THEN DictCell(Append(cell.keys, key), Append(cell.vals, v))
       ELSE DictCell(cell.keys, [cell.vals EXCEPT ![i] = v])

(***************************************************************************)
(* Value.resolve, Array.resolve, Object.resolve and Unknown.indirect.      *)
(***************************************************************************)
RECURSIVE resolve(_, _), Unknown_indirect(_, _)

\* Unknown.indirect(*values): a staticmethod
Unknown_indirect(values, heap) ==
    LET resolved_values == [i \in DOMAIN values |-> resolve(values[i], heap)]
    IN Unknown({},
               UNION {references(resolved_values[i]) :
                        i \in {j \in DOMAIN values : resolved_values[j].t = "unknown"}},
               NoSpan)

resolve(v, heap) ==
    IF v.t \in {"array", "object"}
    THEN LET items == IF v.t = "array" THEN heap[v.ref].items ELSE heap[v.ref].vals
             resolved == [i \in DOMAIN items |-> resolve(items[i], heap)]
             unknown == SelectSeq(resolved, LAMBDA r : r.t = "unknown")
         IN IF unknown # <<>> THEN Unknown_indirect(unknown, heap) ELSE v
    ELSE v

\* value.indirect() called on an instance: indirect is a staticmethod, so the
\* instance is not passed and the call is Unknown.indirect() with no values.
instance_indirect(u, heap) == Unknown_indirect(<<>>, heap)

\* A path step that forgets the path it extends: what C4 tells from
\* Unknown.direct.
Unknown_direct_forgetful(u, sp, key) ==
    Unknown(IF u.direct # {}
            THEN {VariableReference(Append(r.key, key), sp) : r \in u.direct}
            ELSE {VariableReference(<<NoneKey, key>>, sp)},
            u.indirect, NoSpan)

\* Unknown.direct(span, key)
Unknown_direct(u, sp, key) ==
    LET direct_refs ==
            IF u.direct # {}
            THEN {VariableReference(Append(r.key, key), sp) : r \in u.direct}
            ELSE {VariableReference(<<NoneKey, key>>, sp)}
    IN Unknown(direct_refs, references(u), NoSpan)

\* Unknown.ident(identifier)
Unknown_ident(identifier) ==
    Unknown({VariableReference(<<identifier.name>>, identifier.span)}, {}, identifier.span)

(***************************************************************************)
(* Arithmetic of the scalar values.                                        *)
(***************************************************************************)
(***************************************************************************)
(* Natural numbers of any size, for the mantissas of the doubles: the      *)
(* sequence of the bits, the lowest first and the last one 1; 0 is <<>>.   *)
(***************************************************************************)
RECURSIVE bits_of(_)
bits_of(n) == IF n = 0 THEN <<>> ELSE <<n % 2>> \o bits_of(n \div 2)

bit(b, i) == IF i \in DOMAIN b THEN b[i] ELSE 0

\* without the zeros above the highest 1
bits_trim(b) ==
    LET ones == {i \in DOMAIN b : b[i] = 1}
    IN IF ones = {} THEN <<>>
       ELSE SubSeq(b, 1, CHOOSE i \in ones : \A j \in ones : j <= i)

\* b * 2^k and b \div 2^k
bits_shl(b, k) ==
    IF b = <<>> THEN <<>> ELSE [i \in 1 .. Len(b) + k |-> IF i <= k THEN 0 ELSE b[i - k]]

bits_shr(b, k) == IF k >= Len(b) THEN <<>> ELSE SubSeq(b, k + 1, Len(b))

\* -1, 0, 1 as a < b, a = b, a > b
bits_cmp(a, b) ==
    LET differ == {i \in DOMAIN a \cap DOMAIN b : a[i] # b[i]}
        top == CHOOSE i \in differ : \A j \in differ : j <= i
    IN CASE Len(a) < Len(b) -> -1
         [] Len(a) > Len(b) -> 1
         [] differ = {} -> 0
         [] OTHER -> IF a[top] = 1 THEN 1 ELSE -1

\* The arithmetic takes the bits fifteen at a time: a limb is a number
\* below Base, and the product of two limbs is a number TLC can hold.
Base == 2^15

limb_at(b, o) ==
    bit(b, o + 1) + 2 * bit(b, o + 2) + 4 * bit(b, o + 3) + 8 * bit(b, o + 4)
        + 16 * bit(b, o + 5) + 32 * bit(b, o + 6) + 64 * bit(b, o + 7) + 128 * bit(b, o + 8)
        + 256 * bit(b, o + 9) + 512 * bit(b, o + 10) + 1024 * bit(b, o + 11)
        + 2048 * bit(b, o + 12) + 4096 * bit(b, o + 13) + 8192 * bit(b, o + 14)
        + 16384 * bit(b, o + 15)

\* the limbs of a number, the lowest first, and the number of the limbs
limbs_of(b) == [j \in 1 .. (Len(b) + 14) \div 15 |-> limb_at(b, 15 * (j - 1))]

bits_of_limbs(l) ==
    bits_trim([i \in 1 .. 15 * Len(l) |-> (l[(i - 1) \div 15 + 1] \div 2^((i - 1) % 15)) % 2])

limb(l, j) == IF j \in DOMAIN l THEN l[j] ELSE 0

\* without the zero limbs above the highest limb that is not zero
limbs_trim(l) ==
    LET used == {j \in DOMAIN l : l[j] # 0}
    IN IF used = {} THEN <<>>
       ELSE SubSeq(l, 1, CHOOSE j \in used : \A k \in used : k <= j)

\* -1, 0, 1 as a < b, a = b, a > b, for trimmed limbs
limbs_cmp(a, b) ==
    LET differ == {j \in DOMAIN a \cap DOMAIN b : a[j] # b[j]}
        top == CHOOSE j \in differ : \A k \in differ : k <= j
    IN CASE Len(a) < Len(b) -> -1
         [] Len(a) > Len(b) -> 1
         [] differ = {} -> 0
         [] OTHER -> IF a[top] > b[top] THEN 1 ELSE -1

\* a + b: limb j takes a carry when a lower limb overflows and every limb
\* between passes the carry on
limbs_carry(a, b, j) ==
    \E i \in 1 .. j - 1 :
        /\ limb(a, i) + limb(b, i) >= Base
        /\ \A k \in i + 1 .. j - 1 : limb(a, k) + limb(b, k) = Base - 1

limbs_add(a, b) ==
    limbs_trim([j \in 1 .. (IF Len(a) > Len(b) THEN Len(a) ELSE Len(b)) + 1 |->
                   (limb(a, j) + limb(b, j) + IF limbs_carry(a, b, j) THEN 1 ELSE 0) % Base])

\* a - b, for a >= b: limb j lends when a lower limb falls short and every
\* limb between has nothing to give
limbs_borrow(a, b, j) ==
    \E i \in 1 .. j - 1 :
        /\ limb(a, i) < limb(b, i)
        /\ \A k \in i + 1 .. j - 1 : limb(a, k) = limb(b, k)

limbs_sub(a, b) ==
    limbs_trim([j \in DOMAIN a |->
                   (Base + limb(a, j) - limb(b, j) - IF limbs_borrow(a, b, j) THEN 1 ELSE 0) % Base])

\* a * Base^k
limbs_shl(a, k) == IF a = <<>> THEN <<>> ELSE [j \in 1 .. Len(a) + k |-> IF j <= k THEN 0 ELSE a[j - k]]

\* a * d for one limb d: the low halves of the products, and their high
\* halves one limb up
limbs_scale(a, d) ==
    limbs_add(limbs_trim([j \in DOMAIN a |-> (a[j] * d) % Base]),
              limbs_shl(limbs_trim([j \in DOMAIN a |-> (a[j] * d) \div Base]), 1))

RECURSIVE limbs_mul_from(_, _, _)
limbs_mul_from(a, b, j) ==
    IF j > Len(b) THEN <<>>
    ELSE limbs_add(limbs_shl(limbs_scale(a, b[j]), j - 1), limbs_mul_from(a, b, j + 1))

\* The long division of a by b, for a b whose highest limb is Base / 2 or
\* more.  The remainder r so far, one limb of a brought down to it, is
\* below Base * b; the limb of the quotient is the first of three guesses,
\* made from the two highest limbs of r, that is not too large.
limbs_guess(r, b) ==
    LET two == limb(r, Len(b) + 1) * Base + limb(r, Len(b))
    IN IF two \div b[Len(b)] >= Base THEN Base - 1 ELSE two \div b[Len(b)]

limbs_digit(r, b, guess) ==
    CHOOSE d \in {guess, guess - 1, guess - 2} :
        /\ d >= 0
        /\ limbs_cmp(limbs_scale(b, d), r) <= 0
        /\ d = guess \/ limbs_cmp(limbs_scale(b, d + 1), r) > 0

limbs_div_step(r, b, d) == [d |-> d, r |-> limbs_sub(r, limbs_scale(b, d))]

limbs_div_bring(r, b) == limbs_div_step(r, b, limbs_digit(r, b, limbs_guess(r, b)))

RECURSIVE limbs_divmod_from(_, _, _, _, _)

limbs_div_next(a, b, j, q, step) == limbs_divmod_from(a, b, j - 1, <<step.d>> \o q, step.r)

limbs_divmod_from(a, b, j, q, r) ==
    IF j = 0 THEN [q |-> limbs_trim(q), r |-> r]
    ELSE limbs_div_next(a, b, j, q, limbs_div_bring(limbs_trim(<<a[j]>> \o r), b))

bits_add(a, b) == bits_of_limbs(limbs_add(limbs_of(a), limbs_of(b)))

\* a - b, for a >= b
bits_sub(a, b) == bits_of_limbs(limbs_sub(limbs_of(a), limbs_of(b)))

bits_mul(a, b) == bits_of_limbs(limbs_mul_from(limbs_of(a), limbs_of(b), 1))

\* how far b is shifted for its highest limb to be Base / 2 or more
bits_slack(b) == (15 - (Len(b) % 15)) % 15

bits_of_divmod(qr, slack) ==
    [q |-> bits_of_limbs(qr.q), r |-> bits_shr(bits_of_limbs(qr.r), slack)]

limbs_divmod(a, b) == limbs_divmod_from(a, b, Len(a), <<>>, <<>>)

bits_divmod(a, b) ==
    bits_of_divmod(limbs_divmod(limbs_of(bits_shl(a, bits_slack(b))),
                                limbs_of(bits_shl(b, bits_slack(b)))),
                   bits_slack(b))

(***************************************************************************)
(* Python's float: an IEEE 754 double.  A finite double is the number      *)
(* (-1)^neg * bits * 2^exp, kept with an odd mantissa bits (so that equal  *)
(* doubles are equal records); a zero has the mantissa <<>> and keeps its  *)
(* sign.  The results are rounded to 53 bits, to the nearest and to even   *)
(* on a tie, as the hardware rounds them.                                  *)
(***************************************************************************)
MantissaBits == 53
MinExponent == -1074
MaxExponent == 1024

Finite(neg, bits, exp) == [kind |-> "finite", neg |-> neg, bits |-> bits, exp |-> exp]
Infinity(neg) == [kind |-> "inf", neg |-> neg, bits |-> <<>>, exp |-> 0]
NaN == [kind |-> "nan", neg |-> FALSE, bits |-> <<>>, exp |-> 0]

\* Python tells one float object from another, and of the floats only a NaN
\* shows it: the == of two tuples, lists or dicts takes an item that is one
\* object for equal before it asks the item.  NaNObject(obj) is the NaN
\* object obj, which a caller may hold at several places; NaN is a NaN
\* object held at one place, as the one an operation makes is.
NaNObject(obj) == [kind |-> "nan", neg |-> FALSE, bits |-> <<>>, exp |-> 0, obj |-> obj]

same_float(x, y) ==
    /\ "obj" \in DOMAIN x
    /\ "obj" \in DOMAIN y
    /\ x.obj = y.obj

\* the double m * 2^e of a mantissa that fits
double_normal(neg, m, e) ==
    LET ones == {i \in DOMAIN m : m[i] = 1}
        low == CHOOSE i \in ones : \A j \in ones : i <= j
    IN CASE ones = {} -> Finite(neg, <<>>, 0)
         [] Len(m) + e > MaxExponent -> Infinity(neg)
         [] OTHER -> Finite(neg, SubSeq(m, low, Len(m)), e + low - 1)

\* the mantissa m without its s lowest bits, rounded: up when the bits
\* dropped (and what sticky tells lies below them) are more than half of
\* the lowest bit kept, or half of it and the lowest bit kept is 1
bits_round(m, s, sticky) ==
    IF /\ bit(m, s) = 1
       /\ \/ sticky
          \/ \E i \in 1 .. s - 1 : bit(m, i) = 1
          \/ bit(m, s + 1) = 1
    THEN bits_add(bits_shr(m, s), <<1>>)
    ELSE bits_shr(m, s)

\* the double nearest to m * 2^e (plus, when sticky, less than 2^e)
double_round_by(neg, m, e, sticky, s) ==
    IF s <= 0 THEN double_normal(neg, m, e)
    ELSE double_normal(neg, bits_round(m, s, sticky), e + s)

double_round(neg, m, e, sticky) ==
    double_round_by(neg, m, e, sticky,
                    IF Len(m) - MantissaBits > MinExponent - e
                    THEN Len(m) - MantissaBits ELSE MinExponent - e)

\* float(i)
double_of_int(i) == double_round(i < 0, bits_of(IF i < 0 THEN -i ELSE i), 0, FALSE)

is_zero(x) == x.kind = "finite" /\ x.bits = <<>>

\* x < 0
is_negative(x) == x.kind # "nan" /\ x.neg /\ ~is_zero(x)

\* the place above the highest bit of a finite, nonzero double
double_top(x) == Len(x.bits) + x.exp

\* the mantissas of two finite doubles at their lower exponent
aligned(x, y) == bits_shl(x.bits, IF x.exp > y.exp THEN x.exp - y.exp ELSE 0)

\* |x| against |y|, for finite doubles and infinities: -1, 0, 1
magnitude_cmp(x, y) ==
    CASE x.kind = "inf" -> IF y.kind = "inf" THEN 0 ELSE 1
      [] y.kind = "inf" -> -1
      [] is_zero(x) -> IF is_zero(y) THEN 0 ELSE -1
      [] is_zero(y) -> 1
      [] double_top(x) < double_top(y) -> -1
      [] double_top(x) > double_top(y) -> 1
      [] OTHER -> bits_cmp(aligned(x, y), aligned(y, x))

\* x against y: "lt", "eq", "gt", and "un" when one is not a number
double_cmp(x, y) ==
    CASE x.kind = "nan" \/ y.kind = "nan" -> "un"
      [] is_negative(x) /\ ~is_negative(y) -> "lt"
      [] is_negative(y) /\ ~is_negative(x) -> "gt"
      [] magnitude_cmp(x, y) = 0 -> "eq"
      [] OTHER -> IF (magnitude_cmp(x, y) < 0) # is_negative(x) THEN "lt" ELSE "gt"

\* -x
double_neg(x) == IF x.kind = "nan" THEN NaN ELSE [x EXCEPT !.neg = ~@]

\* x + y of finite nonzero doubles whose mantissas a and b are aligned at e
double_add_aligned(x, y, a, b, e) ==
    CASE x.neg = y.neg -> double_round(x.neg, bits_add(a, b), e, FALSE)
      [] bits_cmp(a, b) = 0 -> Finite(FALSE, <<>>, 0)
      [] bits_cmp(a, b) > 0 -> double_round(x.neg, bits_sub(a, b), e, FALSE)
      [] OTHER -> double_round(y.neg, bits_sub(b, a), e, FALSE)

\* how far the highest bits of two doubles may be apart for the smaller
\* one to change the sum
AddReach == 2 * MantissaBits + 2

\* x + y
double_add(x, y) ==
    CASE x.kind = "nan" \/ y.kind = "nan" -> NaN
      [] x.kind = "inf" -> IF y.kind = "inf" /\ x.neg # y.neg THEN NaN ELSE x
      [] y.kind = "inf" -> y
      [] is_zero(x) /\ is_zero(y) -> Finite(x.neg /\ y.neg, <<>>, 0)
      [] is_zero(x) -> y
      [] is_zero(y) -> x
      [] double_top(x) - double_top(y) > AddReach -> x
      [] double_top(y) - double_top(x) > AddReach -> y
      [] OTHER -> double_add_aligned(x, y, aligned(x, y), aligned(y, x),
                                     IF x.exp < y.exp THEN x.exp ELSE y.exp)

\* x - y
double_sub(x, y) == double_add(x, double_neg(y))

\* x * y
double_mul(x, y) ==
    CASE x.kind = "nan" \/ y.kind = "nan" -> NaN
      [] x.kind = "inf" \/ y.kind = "inf" ->
            IF is_zero(x) \/ is_zero(y) THEN NaN ELSE Infinity(x.neg # y.neg)
      [] OTHER -> double_round(x.neg # y.neg, bits_mul(x.bits, y.bits), x.exp + y.exp, FALSE)

\* the quotient a * 2^k \div b rounded, the remainder being what lies below
double_quotient(neg, qr, e) == double_round(neg, qr.q, e, qr.r # <<>>)

\* x / y, for y # 0
double_div(x, y) ==
    CASE x.kind = "nan" \/ y.kind = "nan" -> NaN
      [] x.kind = "inf" -> IF y.kind = "inf" THEN NaN ELSE Infinity(x.neg # y.neg)
      [] y.kind = "inf" \/ is_zero(x) -> Finite(x.neg # y.neg, <<>>, 0)
      [] OTHER ->
            double_quotient(x.neg # y.neg,
                            bits_divmod(bits_shl(x.bits, Len(y.bits) + MantissaBits + 2), y.bits),
                            x.exp - y.exp - (Len(y.bits) + MantissaBits + 2))

\* (r * 2^g) % b, the shift taken in steps of at most MantissaBits
RECURSIVE bits_shifted_mod(_, _, _)
bits_shifted_mod(r, b, g) ==
    IF g = 0 THEN r
    ELSE IF g <= MantissaBits THEN bits_divmod(bits_shl(r, g), b).r
    ELSE bits_shifted_mod(bits_divmod(bits_shl(r, MantissaBits), b).r, b, g - MantissaBits)

\* C's fmod(x, y) for y # 0: x - n * y for the integer n nearest to zero
\* from x / y, with the sign of x; it is exact
double_fmod(x, y) ==
    CASE x.kind # "finite" \/ y.kind = "nan" -> NaN
      [] y.kind = "inf" \/ magnitude_cmp(x, y) < 0 -> x
      [] x.exp >= y.exp ->
            double_normal(x.neg,
                          bits_shifted_mod(bits_divmod(x.bits, y.bits).r, y.bits, x.exp - y.exp),
                          y.exp)
      [] OTHER -> double_normal(x.neg, bits_divmod(x.bits, aligned(y, x)).r, x.exp)

\* float.__mod__ (float_rem) once fmod is taken: the remainder takes the
\* sign of the divisor
double_rem(mod, y) ==
    CASE is_zero(mod) -> Finite(y.neg, <<>>, 0)
      [] is_negative(y) # is_negative(mod) -> double_add(mod, y)
      [] OTHER -> mod

\* x % y, for y # 0
double_mod(x, y) == double_rem(double_fmod(x, y), y)

\* the float the text of the fraction num/den is read as (float(str), and
\* int / int), den # 0
MkFloat(num, den) ==
    Float(double_div(double_of_int(num), double_of_int(den)), NoSpan)

\* Python's floor division, for a divisor of either sign
FloorDiv(a, b) == IF b > 0 THEN a \div b ELSE (-a) \div (-b)

\* Python's %: the result has the sign of the divisor
PyMod(a, b) == a - b * FloorDiv(a, b)

IsNumber(v) == v.t \in {"integer", "float"}

\* the Python number behind an Integer or a Float, as a float
as_double(v) == IF v.t = "integer" THEN double_of_int(v.i) ELSE v.raw

RECURSIVE Repeat(_, _)
\* str * int
Repeat(s, n) == IF n <= 0 THEN "" ELSE s \o Repeat(s, n - 1)

(***************************************************************************)
(* The operator methods of the value classes.  An outcome is the value the *)
(* method returns, or the exception it ends with.                          *)
(***************************************************************************)
Returns(v) == [o |-> "value", val |-> v]
RaisesNotImplemented == [o |-> "NotImplementedError"]
RaisesArithmetic == [o |-> "ArithmeticError"]

OperationOf(op) ==
    CASE op = "+" -> "__add__"
      [] op = "-" -> "__sub__"
      [] op = "*" -> "__mul__"
      [] op = "/" -> "__truediv__"
      [] op = "%" -> "__mod__"
      [] op = "==" -> "__equals__"
      [] op = "!=" -> "__not_equals__"
      [] op = "<" -> "__lt__"
      [] op = ">" -> "__gt__"
      [] op = "<=" -> "__le__"
      [] op = ">=" -> "__ge__"
      [] op = "&&" -> "__and__"
      [] op = "||" -> "__or__"
      [] OTHER -> "KeyError"

\* the table of _eval_unary_expression; an operator it does not hold is a
\* KeyError
UnaryOperationOf(op) ==
    CASE op = "-" -> "__neg__"
      [] op = "!" -> "__not__"
      [] OTHER -> "KeyError"

Comparisons == {"__lt__", "__gt__", "__le__", "__ge__"}

\* getattr(left, operation) finds a method: one the class defines, the
\* __not_equals__ of Value, or a rich comparison every Python object has.
has_operator(left, operation) ==
    CASE operation = "__not_equals__" -> TRUE
      [] operation \in Comparisons -> TRUE
      [] operation = "__equals__" -> left.t \in {"integer", "float", "string", "boolean"}
      [] operation \in {"__add__", "__mul__"} -> left.t \in {"integer", "float", "string"}
      [] operation \in {"__sub__", "__truediv__", "__mod__"} -> left.t \in {"integer", "float"}
      [] operation \in {"__and__", "__or__"} -> left.t = "boolean"
      [] OTHER -> FALSE

\* int + int, int - int, int * int, int % int
int_arith(operation, a, b) ==
    CASE operation = "__add__" -> Returns(Integer(a + b, NoSpan))
      [] operation = "__sub__" -> Returns(Integer(a - b, NoSpan))
      [] operation = "__mul__" -> Returns(Integer(a * b, NoSpan))
      [] operation = "__mod__" ->
            IF b = 0 THEN RaisesArithmetic ELSE Returns(Integer(PyMod(a, b), NoSpan))

\* the same of two numbers one of which is a float, and int / int; the int
\* is converted to a float first
float_arith(operation, x, y) ==
    CASE operation = "__add__" -> Returns(Float(double_add(x, y), NoSpan))
      [] operation = "__sub__" -> Returns(Float(double_sub(x, y), NoSpan))
      [] operation = "__mul__" -> Returns(Float(double_mul(x, y), NoSpan))
      [] operation = "__truediv__" ->
            IF is_zero(y) THEN RaisesArithmetic ELSE Returns(Float(double_div(x, y), NoSpan))
      [] operation = "__mod__" ->
            IF is_zero(y) THEN RaisesArithmetic ELSE Returns(Float(double_mod(x, y), NoSpan))

\* Integer.__add__ ... Float.__mod__ on two numbers
number_arith(operation, l, r) ==
    IF l.t = "integer" /\ r.t = "integer" /\ operation # "__truediv__"
    THEN int_arith(operation, l.i, r.i)
    ELSE float_arith(operation, as_double(l), as_double(r))

\* Integer.__lt__ ... Float.__ge__ and the numeric __equals__
number_compare(operation, l, r) ==
    CASE operation = "__lt__" -> double_cmp(as_double(l), as_double(r)) = "lt"
      [] operation = "__gt__" -> double_cmp(as_double(l), as_double(r)) = "gt"
      [] operation = "__le__" -> double_cmp(as_double(l), as_double(r)) \in {"lt", "eq"}
      [] operation = "__ge__" -> double_cmp(as_double(l), as_double(r)) \in {"gt", "eq"}
      [] operation = "__equals__" -> double_cmp(as_double(l), as_double(r)) = "eq"

\* the __equals__ of Integer, Float, String and Boolean
value_equals(left, right) ==
    CASE IsNumber(left) ->
            Boolean(IsNumber(right) /\ number_compare("__equals__", left, right), NoSpan)
      [] left.t = "string" -> Boolean(right.t = "string" /\ left.s = right.s, NoSpan)
      [] left.t = "boolean" -> Boolean(right.t = "boolean" /\ left.b = right.b, NoSpan)

\* Value.__not_equals__
value_not_equals(left, right) ==
    IF has_operator(left, "__equals__")
    THEN Boolean(~value_equals(left, right).b, NoSpan)
    ELSE Boolean(TRUE, NoSpan)

\* operator(right), for a left operand on which getattr found the method
apply_operator(operation, left, right) ==
    CASE operation = "__not_equals__" -> Returns(value_not_equals(left, right))
      [] operation = "__equals__" -> Returns(value_equals(left, right))
      [] operation \in Comparisons ->
            IF IsNumber(left) /\ IsNumber(right)
            THEN Returns(Boolean(number_compare(operation, left, right), NoSpan))
            ELSE RaisesNotImplemented
      [] operation \in {"__and__", "__or__"} ->
            IF right.t = "boolean"
            THEN Returns(Boolean(IF operation = "__and__" THEN left.b /\ right.b
                                 ELSE left.b \/ right.b, NoSpan))
            ELSE RaisesNotImplemented
      [] left.t = "string" /\ operation = "__add__" ->
            IF right.t = "string" THEN Returns(String(left.s \o right.s, NoSpan))
            ELSE RaisesNotImplemented
      [] left.t = "string" /\ operation = "__mul__" ->
            IF right.t = "integer" THEN Returns(String(Repeat(left.s, right.i), NoSpan))
            ELSE RaisesNotImplemented
      [] OTHER ->
            IF IsNumber(right) THEN number_arith(operation, left, right)
            ELSE RaisesNotImplemented

\* the unary operator methods: Integer.__neg__, Float.__neg__, Boolean.__not__
has_unary(value, operation) ==
    \/ operation = "__neg__" /\ value.t \in {"integer", "float"}
    \/ operation = "__not__" /\ value.t = "boolean"

apply_unary(operation, value) ==
    CASE value.t = "integer" -> Integer(-value.i, NoSpan)
      [] value.t = "float" -> Float(double_neg(value.raw), NoSpan)
      [] value.t = "boolean" -> Boolean(~value.b, NoSpan)

(***************************************************************************)
(* AST nodes (nodes.py).  The tag k is the node's class; span identifies   *)
(* the node.  The operator of a unary or binary expression is kept as its  *)
(* type string; a missing key_ident or condition is NoNode.                *)
(***************************************************************************)
NoNode == [k |-> "None"]
Literal(value, sp) == [k |-> "Literal", value |-> value, span |-> sp]
Identifier(name, sp) == [k |-> "Identifier", name |-> name, span |-> sp]
ArrayExpression(values, sp) == [k |-> "ArrayExpression", values |-> values, span |-> sp]

\* Value.__eq__, the == the dataclass makes: two values of one class whose
\* fields, the span left out, are equal.  It is the == of the tuples of the
\* fields, which takes one object for equal: one NaN object, one container.
\* Two floats that hold two NaN objects are not equal; the == of two lists
\* and of two dicts takes their items one by one.
RECURSIVE value_eq(_, _, _)
value_eq(a, b, heap) ==
    CASE a.t # b.t -> FALSE
      [] a.t = "null" -> TRUE
      [] a.t = "boolean" -> a.b = b.b
      [] a.t = "integer" -> a.i = b.i
      [] a.t = "float" -> same_float(a.raw, b.raw) \/ double_cmp(a.raw, b.raw) = "eq"
      [] a.t = "string" -> a.s = b.s
      [] a.t = "unknown" -> a.direct = b.direct /\ a.indirect = b.indirect
      [] a.ref = b.ref -> TRUE
      [] a.t = "array" ->
            /\ Len(heap[a.ref].items) = Len(heap[b.ref].items)
            /\ \A i \in DOMAIN heap[a.ref].items :
                   value_eq(heap[a.ref].items[i], heap[b.ref].items[i], heap)
      [] a.t = "object" ->
            /\ Len(heap[a.ref].keys) = Len(heap[b.ref].keys)
            /\ \A i \in DOMAIN heap[a.ref].keys :
                   LET at == dict_find(heap[b.ref], heap[a.ref].keys[i].s)
                   IN at # 0 /\ value_eq(heap[a.ref].vals[i], heap[b.ref].vals[at], heap)

\* Node.__eq__, the == the dataclass makes: two nodes of one class whose
\* fields, the span left out (compare=False), are equal
RECURSIVE node_eq(_, _, _)
node_eq(a, b, heap) ==
    /\ DOMAIN a = DOMAIN b
    /\ \A f \in DOMAIN a :
          CASE f = "span" -> TRUE
            [] f = "value" /\ a.k = "Literal" ->
                  b.k = "Literal" /\ value_eq(a.value, b.value, heap)
            [] f \in {"ident", "expr", "on", "key", "left", "right", "cond", "then_expr",
                      "else_expr", "key_ident", "value_ident", "collection", "value",
                      "condition", "type"} -> node_eq(a[f], b[f], heap)
            [] f \in {"values", "args", "keys", "labels", "body"} ->
                  /\ Len(a[f]) = Len(b[f])
                  /\ \A i \in DOMAIN a[f] : node_eq(a[f][i], b[f][i], heap)
            [] f = "fields" ->
                  /\ Len(a[f]) = Len(b[f])
                  /\ \A i \in DOMAIN a[f] : \E at \in DOMAIN b[f] :
                         /\ node_eq(a[f][i][1], b[f][at][1], heap)
                         /\ node_eq(a[f][i][2], b[f][at][2], heap)
            [] OTHER -> a[f] = b[f]

\* Node.__hash__, the hash the frozen dataclass makes of the fields, the
\* span left out: the TypeError of a list, a dict or a set in a field, at
\* any depth (the values of an ArrayExpression, the fields of an
\* ObjectExpression, the args of a call, the keys of a splat, the labels and
\* the body of a Block, the Literal of an Array, an Object or an Unknown).
RECURSIVE node_hashable(_)
node_hashable(node) ==
    CASE node.k \in {"ArrayExpression", "ObjectExpression", "FunctionCall", "AttrSplat",
                     "IndexSplat", "Block"} -> FALSE
      [] node.k = "Literal" -> node.value.t \notin {"array", "object", "unknown"}
      [] OTHER ->
            \A f \in DOMAIN node \cap {"ident", "expr", "on", "key", "left", "right", "cond",
                                       "then_expr", "else_expr", "key_ident", "value_ident",
                                       "collection", "value", "condition"} :
                node_hashable(node[f])

\* {kv[0]: kv[1] for kv in args}: a dict keeps the first of two equal keys,
\* at its place, and the last of their values; a key Python cannot hash
\* ends it with a TypeError.  A key it can hash holds no list and no dict:
\* its == reads no container.
RECURSIVE fields_dict(_, _)
fields_dict(pairs, acc) ==
    IF pairs = <<>> THEN Returns(acc)
    ELSE IF ~node_hashable(Head(pairs)[1]) THEN [o |-> "TypeError"]
    ELSE LET same == {i \in DOMAIN acc : node_eq(acc[i][1], Head(pairs)[1], <<>>)}
         IN fields_dict(Tail(pairs),
                        IF same = {} THEN Append(acc, Head(pairs))
                        ELSE [i \in DOMAIN acc |->
                                 IF i \in same THEN <<acc[i][1], Head(pairs)[2]>> ELSE acc[i]])

\* ObjectExpression.fields is a dict from key node to value node, kept as
\* the sequence of its items.  No node is made of a key Python cannot hash:
\* the TypeError of the dict is what the caller gets.
ObjectExpression(fields, sp) ==
    LET dict == fields_dict(fields, <<>>)
    IN IF dict.o = "value"
       THEN [k |-> "ObjectExpression", fields |-> dict.val, span |-> sp]
       ELSE dict
FunctionCall(ident, args, var_args, sp) ==
    [k |-> "FunctionCall", ident |-> ident, args |-> args, var_args |-> var_args, span |-> sp]
GetAttrKey(ident, sp) == [k |-> "GetAttrKey", ident |-> ident, span |-> sp]
GetIndexKey(expr, sp) == [k |-> "GetIndexKey", expr |-> expr, span |-> sp]
GetAttr(on, key, sp) == [k |-> "GetAttr", on |-> on, key |-> key, span |-> sp]
GetIndex(on, key, sp) == [k |-> "GetIndex", on |-> on, key |-> key, span |-> sp]
AttrSplat(on, keys, sp) == [k |-> "AttrSplat", on |-> on, keys |-> keys, span |-> sp]
IndexSplat(on, keys, sp) == [k |-> "IndexSplat", on |-> on, keys |-> keys, span |-> sp]
UnaryExpression(op, expr, sp) == [k |-> "UnaryExpression", op |-> op, expr |-> expr, span |-> sp]
BinaryExpression(op, left, right, sp) ==
    [k |-> "BinaryExpression", op |-> op, left |-> left, right |-> right, span |-> sp]
Conditional(cond, then_expr, else_expr, sp) ==
    [k |-> "Conditional", cond |-> cond, then_expr |-> then_expr, else_expr |-> else_expr,
     span |-> sp]
Parenthesis(expr, sp) == [k |-> "Parenthesis", expr |-> expr, span |-> sp]
ForTupleExpression(key_ident, value_ident, collection, value, condition, sp) ==
    [k |-> "ForTupleExpression", key_ident |-> key_ident, value_ident |-> value_ident,
     collection |-> collection, value |-> value, condition |-> condition, span |-> sp]
ForObjectExpression(key_ident, value_ident, collection, key, value, condition, grouping_mode, sp) ==
    [k |-> "ForObjectExpression", key_ident |-> key_ident, value_ident |-> value_ident,
     collection |-> collection, key |-> key, value |-> value, condition |-> condition,
     grouping_mode |-> grouping_mode, span |-> sp]
Attribute(key, value, sp) == [k |-> "Attribute", key |-> key, value |-> value, span |-> sp]
Block(type, labels, body, sp) ==
    [k |-> "Block", type |-> type, labels |-> labels, body |-> body, span |-> sp]

\* Identifier.as_string
as_string(identifier) == String(identifier.name, identifier.span)

RECURSIVE label_keys(_)
label_keys(labels) ==
    IF labels = <<>> THEN <<>>
    ELSE LET label == Head(labels)
             rest == label_keys(Tail(labels))
         IN CASE label.k = "Identifier" -> <<as_string(label)>> \o rest
              [] label.k = "Literal" /\ label.value.t = "string" -> <<label.value>> \o rest
              [] OTHER -> rest

\* Block.keys
Block_keys(block) == <<as_string(block.type)>> \o label_keys(block.labels)

(***************************************************************************)
(* The state an evaluation runs in and changes: the heap of raw            *)
(* containers, the EvaluationScope objects, the intrinsics table of the    *)
(* Evaluator, and two observations of the run: the nodes eval was entered  *)
(* for, in order, and the calls made to intrinsic functions.               *)
(***************************************************************************)
Ok(st, v) == [st |-> st, err |-> NoErr, val |-> v]
Fail(st, code) == [st |-> st, err |-> code, val |-> Null(NoSpan)]

\* a new raw container; its address is the new length of the heap
alloc(st, cell) == [st EXCEPT !.heap = Append(@, cell)]

(***************************************************************************)
(* Value.infer.  A host object is a record tagged h with the name of its   *)
(* Python type: NoneType, bool, int, float, str, PosixPath, list, dict     *)
(* (keys and vals, in insertion order), Value (an existing Value, v) and   *)
(* object (anything else).  The cases of the match are tried in the order  *)
(* of the source; a bool is an int, an Array is a Sequence and an Object   *)
(* is a Mapping for isinstance.  Integer(True) is kept as Integer(1): in   *)
(* Python True == 1.                                                       *)
(***************************************************************************)
RECURSIVE infer(_, _)
RECURSIVE infer_sequence(_, _, _)
RECURSIVE infer_mapping(_, _, _, _)

\* An inference that lifts the items of a sequence last to first.
infer_sequence_reversed(items, acc, st) ==
    IF items = <<>>
    THEN LET st1 == alloc(st, ListCell(acc))
         IN Ok(st1, Array(Len(st1.heap), NoSpan))
    ELSE LET item == infer(Head(items), st)
         IN IF item.err # NoErr THEN item
            ELSE infer_sequence(Tail(items), <<item.val>> \o acc, item.st)

\* [Value.infer(item) for item in raw], then Array(...)
infer_sequence(items, acc, st) ==
    IF items = <<>>
    THEN LET st1 == alloc(st, ListCell(acc))
         IN Ok(st1, Array(Len(st1.heap), NoSpan))
    ELSE LET item == infer(Head(items), st)
         IN IF item.err # NoErr THEN item
            ELSE infer_sequence(Tail(items), Append(acc, item.val), item.st)

\* {String(str(k)): Value.infer(v) for k, v in raw.items()}, then Object(...)
infer_mapping(keys, vals, acc, st) ==
    LET Digits == <<"0", "1", "2", "3", "4", "5", "6", "7", "8", "9">>
        str(k) == CASE k.h = "str" -> k.s
                    [] k.h = "int" -> Digits[k.i + 1]
                    [] k.h = "Value" /\ k.v.t = "string" /\ k.v.span = NoSpan ->
                           "String(span=None, _raw='" \o k.v.s \o "')"
    IN IF keys = <<>>
       THEN LET st1 == alloc(st, acc)
            IN Ok(st1, Object(Len(st1.heap), NoSpan))
       ELSE LET v == infer(Head(vals), st)
            IN IF v.err # NoErr THEN v
               ELSE infer_mapping(Tail(keys), Tail(vals),
                                  dict_set(acc, String(str(Head(keys)), NoSpan), v.val), v.st)

\* Value.infer
infer(raw, st) ==
    CASE raw.h = "NoneType" -> Ok(st, Null(NoSpan))
      [] raw.h = "int" -> Ok(st, Integer(raw.i, NoSpan))
      [] raw.h = "bool" -> Ok(st, Integer(IF raw.b THEN 1 ELSE 0, NoSpan))
      [] raw.h = "float" -> Ok(st, Float(raw.raw, NoSpan))
      [] raw.h = "str" -> Ok(st, String(raw.s, NoSpan))
      [] raw.h = "list" -> infer_sequence(raw.items, <<>>, st)
      [] raw.h = "Value" /\ raw.v.t = "array" ->
            infer_sequence([i \in DOMAIN st.heap[raw.v.ref].items |->
                               [h |-> "Value", v |-> st.heap[raw.v.ref].items[i]]], <<>>, st)
      [] raw.h = "dict" -> infer_mapping(raw.keys, raw.vals, DictCell(<<>>, <<>>), st)
      [] raw.h = "Value" /\ raw.v.t = "object" ->
            infer_mapping([i \in DOMAIN st.heap[raw.v.ref].keys |->
                              [h |-> "Value", v |-> st.heap[raw.v.ref].keys[i]]],
                          [i \in DOMAIN st.heap[raw.v.ref].vals |->
                              [h |-> "Value", v |-> st.heap[raw.v.ref].vals[i]]],
                          DictCell(<<>>, <<>>), st)
      [] raw.h = "Value" -> Ok(st, raw.v)
      [] raw.h = "PosixPath" -> Ok(st, String(raw.s, NoSpan))
      [] OTHER -> Fail(st, "NotImplementedError")

\* Value.raw(): the host object of a value; the raw of an Unknown raises
\* (raise_on_unknown), and so does the raw of an Array or an Object that
\* reaches one.
RaisesUnknown == [o |-> "pyhcl2::evaluator::unknown_variable"]

RECURSIVE raw(_, _)
raw(v, heap) ==
    CASE v.t = "null" -> Returns([h |-> "NoneType"])
      [] v.t = "boolean" -> Returns([h |-> "bool", b |-> v.b])
      [] v.t = "integer" -> Returns([h |-> "int", i |-> v.i])
      [] v.t = "float" -> Returns([h |-> "float", raw |-> v.raw])
      [] v.t = "string" -> Returns([h |-> "str", s |-> v.s])
      [] v.t = "array" ->
            LET items == [i \in DOMAIN heap[v.ref].items |-> raw(heap[v.ref].items[i], heap)]
            IN IF \E i \in DOMAIN items : items[i].o # "value" THEN RaisesUnknown
               ELSE Returns([h |-> "list", items |-> [i \in DOMAIN items |-> items[i].val]])
      [] v.t = "object" ->
            LET keys == [i \in DOMAIN heap[v.ref].keys |-> raw(heap[v.ref].keys[i], heap)]
                vals == [i \in DOMAIN heap[v.ref].vals |-> raw(heap[v.ref].vals[i], heap)]
            IN IF \E i \in DOMAIN keys : keys[i].o # "value" \/ vals[i].o # "value"
               THEN RaisesUnknown
               ELSE Returns([h |-> "dict", keys |-> [i \in DOMAIN keys |-> keys[i].val],
                             vals |-> [i \in DOMAIN vals |-> vals[i].val]])
      [] v.t = "unknown" -> RaisesUnknown

NoVariables == [n \in {} |-> Null(NoSpan)]
EvaluationScope(parent, variables) == [parent |-> parent, variables |-> variables]

\* A lookup that stops at the frame it is given: what C2 tells from
\* EvaluationScope.__getitem__.
scope_getitem_own_frame(scopes, scope, item) ==
    IF item \in DOMAIN scopes[scope].variables
    THEN [found |-> TRUE, val |-> scopes[scope].variables[item]]
    ELSE [found |-> FALSE, val |-> Null(NoSpan)]

RECURSIVE scope_getitem(_, _, _)
\* EvaluationScope.__getitem__; found = FALSE is the KeyError
scope_getitem(scopes, scope, item) ==
    IF item \in DOMAIN scopes[scope].variables
    THEN [found |-> TRUE, val |-> scopes[scope].variables[item]]
    ELSE IF scopes[scope].parent # 0
    THEN scope_getitem(scopes, scopes[scope].parent, item)
    ELSE [found |-> FALSE, val |-> Null(NoSpan)]

\* An assignment that writes into the outermost frame of the chain instead of
\* the frame it is given.
RECURSIVE scope_setitem_outermost(_, _, _, _)
scope_setitem_outermost(st, scope, key, value) ==
    IF st.scopes[scope].parent # 0
    THEN scope_setitem_outermost(st, st.scopes[scope].parent, key, value)
    ELSE LET vars == st.scopes[scope].variables
         IN [st EXCEPT !.scopes[scope].variables =
                 [n \in DOMAIN vars \cup {key} |-> IF n = key THEN value ELSE vars[n]]]

\* EvaluationScope.__setitem__
scope_setitem(st, scope, key, value) ==
    LET vars == st.scopes[scope].variables
    IN [st EXCEPT !.scopes[scope].variables =
            [n \in DOMAIN vars \cup {key} |-> IF n = key THEN value ELSE vars[n]]]

\* EvaluationScope.child; the child is the last scope of the result
scope_child(st, scope) ==
    [st EXCEPT !.scopes = Append(@, EvaluationScope(scope, NoVariables))]

\* list.__getitem__ with an int: a negative index counts from the end
list_index(items, i) ==
    IF 0 <= i /\ i < Len(items) THEN i + 1
    ELSE IF i < 0 /\ -i <= Len(items) THEN Len(items) + i + 1
    ELSE 0

\* Array.insert: list.insert, which takes every index: a negative one counts
\* from the end, and one past either end is that end
Array_insert(cell, index, value) ==
    LET n == Len(cell.items)
        at == IF index < 0 THEN (IF n + index < 0 THEN 0 ELSE n + index)
              ELSE IF index > n THEN n ELSE index
    IN ListCell(SubSeq(cell.items, 1, at) \o <<value>> \o SubSeq(cell.items, at + 1, n))

\* Array.__setitem__ with an int: an IndexError for an index out of range
Array_setitem(cell, index, value) ==
    LET i == list_index(cell.items, index)
    IN IF i = 0 THEN [err |-> "IndexError", cell |-> cell]
       ELSE [err |-> NoErr, cell |-> ListCell([cell.items EXCEPT ![i] = value])]

\* Array.__delitem__ with an int: an IndexError for an index out of range
Array_delitem(cell, index) ==
    LET i == list_index(cell.items, index)
    IN IF i = 0 THEN [err |-> "IndexError", cell |-> cell]
       ELSE [err |-> NoErr,
             cell |-> ListCell(SubSeq(cell.items, 1, i - 1)
                                   \o SubSeq(cell.items, i + 1, Len(cell.items)))]

\* Object.__setitem__
Object_setitem(cell, key, value) == dict_set(cell, key, value)

\* Object.__delitem__: a KeyError for a key the object does not have
Object_delitem(cell, key) ==
    LET i == dict_find(cell, key.s)
        rest(seq) == SubSeq(seq, 1, i - 1) \o SubSeq(seq, i + 1, Len(seq))
    IN IF i = 0 THEN [err |-> "KeyError", cell |-> cell]
       ELSE [err |-> NoErr, cell |-> DictCell(rest(cell.keys), rest(cell.vals))]

\* The host functions of the intrinsics table.  id is the table of
\* test_unknown_function_call: lambda x: x, a TypeError for any other
\* number of arguments.
call_intrinsic(name, args) ==
    IF Len(args) = 1 THEN Returns(args[1]) ELSE [o |-> "TypeError"]

(***************************************************************************)
(* The evaluator (eval.py).  eval(expr, scope, st) is Evaluator.eval run   *)
(* from state st: it gives the state it leaves and either the value it     *)
(* returns or the code of the DiagnosticError it raises.                   *)
(***************************************************************************)
RECURSIVE eval(_, _, _)
RECURSIVE eval_each(_, _, _, _)
RECURSIVE block_body(_, _, _, _)
RECURSIVE block_next(_, _, _, _)
RECURSIVE block_descend(_, _, _)
RECURSIVE object_fields(_, _, _, _, _)
RECURSIVE for_tuple_loop(_, _, _, _, _)
RECURSIVE for_tuple_iteration(_, _, _, _, _)
RECURSIVE for_object_loop(_, _, _, _, _, _)
RECURSIVE for_object_iteration(_, _, _, _, _, _)
RECURSIVE splat_keys(_, _, _, _, _)
RECURSIVE splat_next_key(_, _, _, _)
RECURSIVE splat_items(_, _, _, _, _, _)
RECURSIVE splat_next_item(_, _, _, _, _, _)
RECURSIVE _evaluate_get_index(_, _, _, _)

\* [self.eval(item, scope) for item in exprs]
eval_each(exprs, scope, st, acc) ==
    IF exprs = <<>> THEN [st |-> st, err |-> NoErr, vals |-> acc]
    ELSE LET r == eval(Head(exprs), scope, st)
         IN IF r.err # NoErr THEN [st |-> r.st, err |-> r.err, vals |-> acc]
            ELSE eval_each(Tail(exprs), scope, r.st, Append(acc, r.val))

\* _eval_block, the loop over keys[:-1].  In
\*     mapping = mapping[key] = Object({})
\* Python assigns the targets from left to right: mapping is rebound to the
\* new object first, and the new object is then stored under key in itself.
block_descend(keys, mapping, st) ==
    IF Len(keys) <= 1 THEN [st |-> st, err |-> NoErr, mapping |-> mapping]
    ELSE LET key == Head(keys)
             i == dict_find(st.heap[mapping], key.s)
         IN IF i = 0
            THEN LET st1 == alloc(st, DictCell(<<>>, <<>>))
                     new == Len(st1.heap)
                 IN block_descend(Tail(keys), new,
                        [st1 EXCEPT !.heap[new] = dict_set(@, key, Object(new, NoSpan))])
            ELSE IF st.heap[mapping].vals[i].t = "object"
            THEN block_descend(Tail(keys), st.heap[mapping].vals[i].ref, st)
            ELSE [st |-> st, err |-> "pyhcl2::evaluator::block::key_conflict",
                  mapping |-> mapping]

\* A placement that puts a nested block before the ones already there:
\* what C7 tells from the placement of _eval_block.
block_place_first(key, mapping, value, st) ==
    LET i == dict_find(st.heap[mapping], key.s)
    IN IF i = 0
       THEN LET st1 == alloc(st, ListCell(<<value>>))
            IN Ok([st1 EXCEPT !.heap[mapping] =
                        dict_set(@, key, Array(Len(st1.heap), NoSpan))], value)
       ELSE IF st.heap[mapping].vals[i].t = "array"
       THEN Ok([st EXCEPT !.heap[st.heap[mapping].vals[i].ref].items = <<value>> \o @],
               value)
       ELSE Fail(st, "pyhcl2::evaluator::block::key_conflict")

\* _eval_block, match mapping.get(keys[-1], None)
block_place(key, mapping, value, st) ==
    LET i == dict_find(st.heap[mapping], key.s)
    IN IF i = 0
       THEN LET st1 == alloc(st, ListCell(<<value>>))
            IN Ok([st1 EXCEPT !.heap[mapping] =
                        dict_set(@, key, Array(Len(st1.heap), NoSpan))], value)
       ELSE IF st.heap[mapping].vals[i].t = "array"
       THEN Ok([st EXCEPT !.heap[st.heap[mapping].vals[i].ref].items = Append(@, value)],
               value)
       ELSE Fail(st, "pyhcl2::evaluator::block::key_conflict")

\* _eval_block for a nested block: the descent, then the placement under
\* keys[-1] in the mapping d the descent ended at
block_placed(key, value, d) ==
    IF d.err # NoErr THEN Fail(d.st, d.err)
    ELSE block_place(key, d.mapping, value, d.st)

block_nested(keys, result, value, st) ==
    block_placed(keys[Len(keys)], value, block_descend(keys, result, st))

\* result[key] = value for an attribute of a block
block_attribute(result, key, value, st) ==
    IF dict_find(st.heap[result], key.s) # 0
    THEN Fail(st, "pyhcl2::evaluator::block::duplicate_key")
    ELSE Ok([st EXCEPT !.heap[result] = dict_set(@, key, value)], value)

\* _eval_block, for stmt in block.body
block_body(stmts, scope, result, st) ==
    IF stmts = <<>> THEN Ok(st, Null(NoSpan))
    ELSE LET stmt == Head(stmts)
             st1 == scope_child(st, scope)
             v == eval(stmt, Len(st1.scopes), st1)
         IN CASE stmt.k \notin {"Attribute", "Block"} ->
                    block_body(Tail(stmts), scope, result, st)
              [] v.err # NoErr -> v
              [] stmt.k = "Attribute" ->
                    block_next(Tail(stmts), scope, result,
                               block_attribute(result, as_string(stmt.key), v.val, v.st))
              [] OTHER ->
                    block_next(Tail(stmts), scope, result,
                               block_nested(Block_keys(stmt), result, v.val, v.st))

\* the statements that remain, after the result r of storing the one before
block_next(stmts, scope, result, r) ==
    IF r.err # NoErr THEN r ELSE block_body(stmts, scope, result, r.st)

\* _eval_block, return Object(result)
block_result(result, r) ==
    IF r.err # NoErr THEN r ELSE Ok(r.st, Object(result, NoSpan))

_eval_block(block, scope, st) ==
    LET st1 == alloc(st, DictCell(<<>>, <<>>))
        result == Len(st1.heap)
    IN block_result(result, block_body(block.body, scope, result, st1))

_eval_literal(expr, scope, st) == Ok(st, expr.value)

_eval_array_expression(expr, scope, st) ==
    LET r == eval_each(expr.values, scope, st, <<>>)
        st1 == alloc(r.st, ListCell(r.vals))
    IN IF r.err # NoErr THEN Fail(r.st, r.err)
       ELSE Ok(st1, Array(Len(st1.heap), NoSpan))

\* _eval_object_expression, for key_expr, value_expr in obj.fields.items()
object_fields(fields, scope, result, unknown_keys, st) ==
    IF fields = <<>>
    THEN IF unknown_keys # <<>>
         THEN Ok(st, Unknown_indirect(unknown_keys, st.heap))
         ELSE Ok(st, Object(result, NoSpan))
    ELSE LET key_expr == Head(fields)[1]
             value_expr == Head(fields)[2]
             paren == key_expr.k = "Parenthesis"
             key == IF paren THEN eval(key_expr.expr, scope, st) ELSE Ok(st, Null(NoSpan))
             resolved_key ==
                 CASE key_expr.k = "Identifier" -> String(key_expr.name, NoSpan)
                   [] key_expr.k = "Literal" -> key_expr.value
                   [] OTHER -> key.val
             value == eval(value_expr, scope, key.st)
             stored == IF value.val.t = "unknown"
                       THEN instance_indirect(value.val, value.st.heap)
                       ELSE value.val
         IN CASE key_expr.k \notin {"Identifier", "Literal", "Parenthesis"}
                 \/ (key_expr.k = "Literal" /\ key_expr.value.t # "string") ->
                    Fail(st, "pyhcl2::evaluator::object::unsupported_key")
              [] paren /\ key.err # NoErr -> key
              [] paren /\ key.val.t = "unknown" ->
                    object_fields(Tail(fields), scope, result,
                                  Append(unknown_keys, key.val), key.st)
              [] paren /\ key.val.t # "string" ->
                    Fail(key.st, "pyhcl2::evaluator::object::unsupported_key")
              [] OTHER ->
                    IF value.err # NoErr THEN value
                    ELSE object_fields(Tail(fields), scope, result, unknown_keys,
                            [value.st EXCEPT !.heap[result] = dict_set(@, resolved_key, stored)])

_eval_object_expression(obj, scope, st) ==
    LET st1 == alloc(st, DictCell(<<>>, <<>>))
    IN object_fields(obj.fields, scope, Len(st1.heap), <<>>, st1)

_eval_identifier(identifier, scope, st) ==
    LET got == scope_getitem(st.scopes, scope, identifier.name)
    IN IF got.found THEN Ok(st, got.val) ELSE Ok(st, Unknown_ident(identifier))

_eval_parenthesis(paren, scope, st) == eval(paren.expr, scope, st)

\* A short-circuiting && and ||: a left operand that decides the result is
\* the result, whatever the right operand is.
binary_decided_by_left(left, right, heap) ==
    IF left.t = "boolean" THEN left ELSE right

\* the value _eval_binary_expression returns when the left operand has the
\* operator and the right operand is Unknown
binary_right_unknown(left, right, heap) == right

\* _eval_binary_expression, operation(left, right) and its except clauses,
\* which evaluate the right operand (again) for the message
binary_outcome(expr, scope, st, out) ==
    LET again == eval(expr.right, scope, st)
    IN CASE out.o = "value" -> Ok(st, out.val)
         [] again.err # NoErr -> again
         [] out.o = "ArithmeticError" ->
                Fail(again.st, "pyhcl2::evaluator::binary_expression::arithmetic_error")
         [] OTHER ->
                Fail(again.st, "pyhcl2::evaluator::binary_expression::unsupported_operator")

\* The right operand failed inside the try.  An AttributeError or a
\* NotImplementedError that leaves its evaluation is caught, and the handler
\* evaluates the operand again, for the message, before it raises; any other
\* error leaves as it is.
binary_right_failed(expr, scope, right) ==
    LET again == eval(expr.right, scope, right.st)
    IN CASE right.err \notin {"AttributeError", "NotImplementedError"} -> right
         [] again.err # NoErr -> again
         [] OTHER ->
                Fail(again.st, "pyhcl2::evaluator::binary_expression::unsupported_operator")

\* The table is read before the left operand is evaluated; getattr raises
\* inside the try, and its handler evaluates the right operand, once.
_eval_binary_expression(expr, scope, st) ==
    LET operation == OperationOf(expr.op)
        left == eval(expr.left, scope, st)
        right == eval(expr.right, scope, left.st)
    IN CASE operation = "KeyError" -> Fail(st, "KeyError")
         [] left.err # NoErr -> left
         [] left.val.t = "unknown" ->
                IF right.err # NoErr THEN binary_right_failed(expr, scope, right)
                ELSE Ok(right.st, Unknown_indirect(<<left.val, right.val>>, right.st.heap))
         [] ~has_operator(left.val, operation) ->
                IF right.err # NoErr THEN right
                ELSE Fail(right.st, "pyhcl2::evaluator::binary_expression::unsupported_operator")
         [] right.err # NoErr -> binary_right_failed(expr, scope, right)
         [] right.val.t = "unknown" ->
                Ok(right.st, binary_right_unknown(left.val, right.val, right.st.heap))
         [] OTHER ->
                binary_outcome(expr, scope, right.st,
                               apply_operator(operation, left.val, right.val))

_eval_unary_expression(expr, scope, st) ==
    LET value == eval(expr.expr, scope, st)
        operation == UnaryOperationOf(expr.op)
    IN IF value.err # NoErr THEN value
       ELSE IF operation = "KeyError" THEN Fail(value.st, "KeyError")
       ELSE IF has_unary(value.val, operation)
       THEN Ok(value.st, apply_unary(operation, value.val))
       ELSE Fail(value.st, "pyhcl2::evaluator::unsupported_unary_operator")

_eval_attribute(attr, scope, st) ==
    LET value == eval(attr.value, scope, st)
    IN IF value.err # NoErr THEN value
       ELSE Ok(scope_setitem(value.st, scope, attr.key.name, value.val), value.val)

\* A lookup that fails for a key the object does not have: what C14 tells
\* from _evaluate_get_attr.
_evaluate_get_attr_strict(on, key, st) ==
    LET i == dict_find(st.heap[on.ref], key.ident.name)
    IN CASE "ident" \notin DOMAIN key -> Fail(st, "AttributeError")
         [] on.t = "unknown" ->
                Ok(st, Unknown_direct(on, key.ident.span, key.ident.name))
         [] on.t # "object" -> Fail(st, "pyhcl2::evaluator::get_attr::unsupported_type")
         [] i # 0 -> Ok(st, st.heap[on.ref].vals[i])
         [] OTHER -> Fail(st, "pyhcl2::evaluator::get_attr::missing_key")

\* _evaluate_get_attr(on, on_span, key, _scope): it reads key.ident.name
\* first, which a key without an ident fails with an AttributeError
_evaluate_get_attr(on, key, st) ==
    LET i == dict_find(st.heap[on.ref], key.ident.name)
    IN CASE "ident" \notin DOMAIN key -> Fail(st, "AttributeError")
         [] on.t = "unknown" ->
                Ok(st, Unknown_direct(on, key.ident.span, key.ident.name))
         [] on.t # "object" -> Fail(st, "pyhcl2::evaluator::get_attr::unsupported_type")
         [] i # 0 -> Ok(st, st.heap[on.ref].vals[i])
         [] OTHER ->
                Ok(st, Unknown_direct(Unknown({}, {}, NoSpan), key.ident.span, key.ident.name))

\* the value of indexing an Unknown by a key that evaluated to an Integer
index_unknown_by_integer(on, key_value, heap) == Unknown_indirect(<<on, key_value>>, heap)

\* _evaluate_get_index(on, on_span, key, scope): it evaluates key.expr
\* first, which a key without an expr fails with an AttributeError
_evaluate_get_index(on, key, scope, st) ==
    LET kv == eval(key.expr, scope, st)
        key_value == kv.val
        h == kv.st.heap
        i == IF on.t = "object" THEN dict_find(h[on.ref], key_value.s)
             ELSE list_index(h[on.ref].items, key_value.i)
    IN CASE "expr" \notin DOMAIN key -> Fail(st, "AttributeError")
         [] kv.err # NoErr -> kv
         [] on.t = "unknown" /\ key_value.t = "unknown" ->
                Ok(kv.st, Unknown_indirect(<<on, key_value>>, h))
         [] on.t = "unknown" /\ key_value.t = "string" ->
                Ok(kv.st, Unknown_direct(on, key.expr.span, key_value.s))
         [] on.t = "unknown" /\ key_value.t = "integer" ->
                Ok(kv.st, index_unknown_by_integer(on, key_value, h))
         [] on.t = "object" /\ key_value.t = "string" ->
                IF i # 0 THEN Ok(kv.st, h[on.ref].vals[i])
                ELSE Fail(kv.st, "pyhcl2::evaluator::get_index::missing_key")
         [] on.t = "array" /\ key_value.t = "integer" ->
                IF i # 0 THEN Ok(kv.st, h[on.ref].items[i])
                ELSE Fail(kv.st, "pyhcl2::evaluator::get_index::index_out_of_bounds")
         [] on.t = "object" /\ key_value.t = "unknown" -> Ok(kv.st, key_value)
         [] OTHER -> Fail(kv.st, "pyhcl2::evaluator::get_index::unsupported_type")

_eval_get_attr(expr, scope, st) ==
    LET on == eval(expr.on, scope, st)
    IN IF on.err # NoErr THEN on ELSE _evaluate_get_attr(on.val, expr.key, on.st)

_eval_get_index(expr, scope, st) ==
    LET on == eval(expr.on, scope, st)
    IN IF on.err # NoErr THEN on ELSE _evaluate_get_index(on.val, expr.key, scope, on.st)

\* A test of the arguments that does not resolve them: what C6 tells from
\* the test _eval_function_call makes.
any_unknown_unresolved(args, heap) == \E i \in DOMAIN args : args[i].t = "unknown"

\* any(isinstance(arg.resolve(), Unknown) for arg in args)
any_unknown(args, heap) == \E i \in DOMAIN args : resolve(args[i], heap).t = "unknown"

_eval_function_call(call, scope, st) ==
    LET args == eval_each(call.args, scope, st, <<>>)
        out == call_intrinsic(call.ident.name, args.vals)
        called == [args.st EXCEPT !.calls = Append(@, [name |-> call.ident.name,
                                                       args |-> args.vals,
                                                       span |-> call.span])]
    IN CASE call.var_args ->
                Fail(st, "pyhcl2::evaluator::function_call::unsupported_var_args")
         [] call.ident.name \notin st.intrinsic_functions ->
                Fail(st, "pyhcl2::evaluator::function_call::unsupported_function")
         [] args.err # NoErr -> Fail(args.st, args.err)
         [] any_unknown(args.vals, args.st.heap) ->
                Ok(args.st, Unknown_indirect(args.vals, args.st.heap))
         [] out.o = "value" -> Ok(called, out.val)
         [] OTHER -> Fail(called, "pyhcl2::evaluator::function_call::invalid_args")

\* A conditional that evaluates both branches whatever the condition is:
\* what C5 tells from _eval_conditional.
_eval_conditional_eager(expr, scope, st) ==
    LET condition == eval(expr.cond, scope, st)
        then_value == eval(expr.then_expr, scope, condition.st)
        else_value == eval(expr.else_expr, scope, then_value.st)
    IN CASE condition.err # NoErr -> condition
         [] then_value.err # NoErr -> then_value
         [] else_value.err # NoErr -> else_value
         [] condition.val.t = "unknown" ->
                Ok(else_value.st,
                   Unknown_indirect(<<condition.val, then_value.val, else_value.val>>,
                                    else_value.st.heap))
         [] condition.val.t = "boolean" /\ condition.val.b ->
                Ok(else_value.st, then_value.val)
         [] condition.val.t = "boolean" -> else_value
         [] OTHER -> Fail(condition.st, "pyhcl2::evaluator::conditional::unsupported_condition")

_eval_conditional(expr, scope, st) ==
    LET condition == eval(expr.cond, scope, st)
        then_value == eval(expr.then_expr, scope, condition.st)
        else_after == eval(expr.else_expr, scope, then_value.st)
    IN CASE condition.err # NoErr -> condition
         [] condition.val.t = "unknown" ->
                IF then_value.err # NoErr THEN then_value
                ELSE IF else_after.err # NoErr THEN else_after
                ELSE Ok(else_after.st,
                        Unknown_indirect(<<condition.val, then_value.val, else_after.val>>,
                                         else_after.st.heap))
         [] condition.val.t = "boolean" /\ condition.val.b -> then_value
         [] condition.val.t = "boolean" -> eval(expr.else_expr, scope, condition.st)
         [] OTHER -> Fail(condition.st, "pyhcl2::evaluator::conditional::unsupported_condition")

\* the (key, value) pairs a for expression iterates over; <<>> with ok = FALSE
\* for a collection it does not support
for_iterator(collection, heap) ==
    CASE collection.t = "object" ->
            [ok |-> TRUE,
             pairs |-> [i \in DOMAIN heap[collection.ref].keys |->
                          <<heap[collection.ref].keys[i], heap[collection.ref].vals[i]>>]]
      [] collection.t = "array" ->
            [ok |-> TRUE,
             pairs |-> [i \in DOMAIN heap[collection.ref].items |->
                          <<Integer(i - 1, NoSpan), heap[collection.ref].items[i]>>]]
      [] collection.t = "unknown" ->
            [ok |-> TRUE,
             pairs |-> <<<<instance_indirect(collection, heap),
                          instance_indirect(collection, heap)>>>>]
      [] OTHER -> [ok |-> FALSE, pairs |-> <<>>]

\* The iteration variables bound in the scope given, the child left empty.
for_scope_leaking(expr, scope, pair, st) ==
    LET st1 == scope_child(st, scope)
        st2 == scope_setitem(st1, scope, expr.value_ident.name, pair[2])
    IN IF expr.key_ident # NoNode
       THEN scope_setitem(st2, scope, expr.key_ident.name, pair[1])
       ELSE st2

\* child_scope = scope.child() with the iteration variables bound
for_scope(expr, scope, pair, st) ==
    LET st1 == scope_child(st, scope)
        child == Len(st1.scopes)
        st2 == scope_setitem(st1, child, expr.value_ident.name, pair[2])
    IN IF expr.key_ident # NoNode
       THEN scope_setitem(st2, child, expr.key_ident.name, pair[1])
       ELSE st2

\* what _eval_for_tuple_expression appends for an iteration whose condition
\* is Boolean(True) or absent
for_tuple_element(result, heap) ==
    IF result.t = "unknown" THEN instance_indirect(result, heap) ELSE result

\* _eval_for_tuple_expression, for k, v in iterator
for_tuple_loop(expr, scope, pairs, results, st) ==
    IF pairs = <<>>
    THEN LET st1 == alloc(st, ListCell(results))
         IN Ok(st1, Array(Len(st1.heap), NoSpan))
    ELSE for_tuple_iteration(expr, scope, Tail(pairs), results,
                             for_scope(expr, scope, Head(pairs), st))

\* _eval_for_tuple_expression, the body of the loop, run in the child scope
\* that st1 ends with; pairs are the iterations that remain
for_tuple_iteration(expr, scope, pairs, results, st1) ==
    LET child == Len(st1.scopes)
        condition == IF expr.condition # NoNode THEN eval(expr.condition, child, st1)
                     ELSE Ok(st1, Boolean(TRUE, NoSpan))
        result == eval(expr.value, child, condition.st)
    IN CASE condition.err # NoErr -> condition
         [] condition.val.t = "unknown" ->
               IF result.err # NoErr THEN result
               ELSE for_tuple_loop(expr, scope, pairs,
                       Append(results, Unknown_indirect(<<condition.val, result.val>>,
                                                        result.st.heap)),
                       result.st)
         [] condition.val.t = "boolean" /\ condition.val.b ->
               IF result.err # NoErr THEN result
               ELSE for_tuple_loop(expr, scope, pairs,
                       Append(results, for_tuple_element(result.val, result.st.heap)),
                       result.st)
         [] condition.val.t = "boolean" ->
               for_tuple_loop(expr, scope, pairs, results, condition.st)
         [] OTHER ->
               Fail(condition.st,
                    "pyhcl2::evaluator::for_tuple_expression::unsupported_condition")

_eval_for_tuple_expression(expr, scope, st) ==
    LET collection == eval(expr.collection, scope, st)
        iterator == for_iterator(collection.val, collection.st.heap)
    IN IF collection.err # NoErr THEN collection
       ELSE IF ~iterator.ok
       THEN Fail(collection.st,
                 "pyhcl2::evaluator::for_tuple_expression::unsupported_collection")
       ELSE for_tuple_loop(expr, scope, iterator.pairs, <<>>, collection.st)

\* _eval_for_object_expression, for k, v in iterator
for_object_loop(expr, scope, pairs, results, unknown_blockers, st) ==
    IF pairs = <<>>
    THEN IF unknown_blockers # <<>>
         THEN Ok(st, Unknown_indirect(unknown_blockers, st.heap))
         ELSE Ok(st, Object(results, NoSpan))
    ELSE for_object_iteration(expr, scope, Tail(pairs), results, unknown_blockers,
                              for_scope(expr, scope, Head(pairs), st))

\* A loop body that leaves out an iteration whose key is an Unknown and
\* goes on to a partial object: what C13 tells from the loop of
\* _eval_for_object_expression.
for_object_iteration_partial(expr, scope, pairs, results, unknown_blockers, st1) ==
    LET child == Len(st1.scopes)
        condition == IF expr.condition # NoNode THEN eval(expr.condition, child, st1)
                     ELSE Ok(st1, Boolean(TRUE, NoSpan))
        key == eval(expr.key, child, condition.st)
        value == eval(expr.value, child, key.st)
    IN CASE condition.err # NoErr -> condition
         [] condition.val.t = "boolean" /\ ~condition.val.b ->
               for_object_loop(expr, scope, pairs, results, unknown_blockers,
                               condition.st)
         [] condition.val.t \notin {"unknown", "boolean"} ->
               Fail(condition.st,
                    "pyhcl2::evaluator::for_object_expression::unsupported_condition")
         [] key.err # NoErr -> key
         [] condition.val.t = "boolean" /\ key.val.t \notin {"unknown", "string"} ->
               Fail(key.st, "pyhcl2::evaluator::for_object_expression::unsupported_key")
         [] value.err # NoErr -> value
         [] condition.val.t = "unknown" ->
               for_object_loop(expr, scope, pairs, results,
                   Append(unknown_blockers,
                          Unknown_indirect(<<condition.val, key.val, value.val>>,
                                           value.st.heap)),
                   value.st)
         [] key.val.t = "unknown" ->
               for_object_loop(expr, scope, pairs, results, unknown_blockers, value.st)
         [] OTHER ->
               for_object_loop(expr, scope, pairs, results, unknown_blockers,
                   [value.st EXCEPT !.heap[results] = dict_set(@, key.val, value.val)])

\* _eval_for_object_expression, the body of the loop, run in the child scope
\* that st1 ends with; pairs are the iterations that remain
for_object_iteration(expr, scope, pairs, results, unknown_blockers, st1) ==
    LET child == Len(st1.scopes)
        condition == IF expr.condition # NoNode THEN eval(expr.condition, child, st1)
                     ELSE Ok(st1, Boolean(TRUE, NoSpan))
        key == eval(expr.key, child, condition.st)
        value == eval(expr.value, child, key.st)
    IN CASE condition.err # NoErr -> condition
         [] condition.val.t = "boolean" /\ ~condition.val.b ->
               for_object_loop(expr, scope, pairs, results, unknown_blockers,
                               condition.st)
         [] condition.val.t \notin {"unknown", "boolean"} ->
               Fail(condition.st,
                    "pyhcl2::evaluator::for_object_expression::unsupported_condition")
         [] key.err # NoErr -> key
         [] condition.val.t = "boolean" /\ key.val.t \notin {"unknown", "string"} ->
               Fail(key.st, "pyhcl2::evaluator::for_object_expression::unsupported_key")
         [] value.err # NoErr -> value
         [] condition.val.t = "unknown" ->
               for_object_loop(expr, scope, pairs, results,
                   Append(unknown_blockers,
                          Unknown_indirect(<<condition.val, key.val, value.val>>,
                                           value.st.heap)),
                   value.st)
         [] key.val.t = "unknown" ->
               for_object_loop(expr, scope, pairs, results,
                   Append(unknown_blockers,
                          Unknown_indirect(<<key.val, value.val>>, value.st.heap)),
                   value.st)
         [] OTHER ->
               for_object_loop(expr, scope, pairs, results, unknown_blockers,
                   [value.st EXCEPT !.heap[results] = dict_set(@, key.val, value.val)])

_eval_for_object_expression(expr, scope, st) ==
    LET collection == eval(expr.collection, scope, st)
        iterator == for_iterator(collection.val, collection.st.heap)
        st1 == alloc(collection.st, DictCell(<<>>, <<>>))
    IN CASE expr.grouping_mode ->
                Fail(st, "pyhcl2::evaluator::for_object_expression::unsupported_grouping_mode")
         [] collection.err # NoErr -> collection
         [] ~iterator.ok ->
                Fail(collection.st,
                     "pyhcl2::evaluator::for_object_expression::unsupported_collection")
         [] OTHER -> for_object_loop(expr, scope, iterator.pairs, Len(st1.heap), <<>>, st1)

\* One key of the chain of a splat.  An attribute splat hands every key to
\* _evaluate_get_attr; an index splat matches the class of the key, and a
\* key of neither class leaves the value as it is.
splat_key(splat, value, key, scope, st) ==
    CASE splat = "AttrSplat" -> _evaluate_get_attr(value, key, st)
      [] key.k = "GetAttrKey" -> _evaluate_get_attr(value, key, st)
      [] key.k = "GetIndexKey" -> _evaluate_get_index(value, key, scope, st)
      [] OTHER -> Ok(st, value)

\* for key in expr.keys
splat_keys(splat, value, keys, scope, st) ==
    IF keys = <<>> THEN Ok(st, value)
    ELSE splat_next_key(splat, Tail(keys), scope, splat_key(splat, value, Head(keys), scope, st))

\* the keys that remain, applied to the result r of the key before them
splat_next_key(splat, keys, scope, r) ==
    IF r.err # NoErr THEN r ELSE splat_keys(splat, r.val, keys, scope, r.st)

\* for i, v in enumerate(iterable)
splat_items(splat, items, keys, scope, acc, st) ==
    IF items = <<>> THEN [st |-> st, err |-> NoErr, vals |-> acc]
    ELSE splat_next_item(splat, Tail(items), keys, scope, acc,
                         splat_keys(splat, Head(items), keys, scope, st))

\* the items that remain, after the result r of the item before them
splat_next_item(splat, items, keys, scope, acc, r) ==
    IF r.err # NoErr THEN [st |-> r.st, err |-> r.err, vals |-> acc]
    ELSE splat_items(splat, items, keys, scope, Append(acc, r.val), r.st)

\* what a splat returns for the values of its items
splat_result(on, values) ==
    LET full == alloc(values.st, ListCell(values.vals))
    IN CASE values.err # NoErr -> Fail(values.st, values.err)
         [] on.t = "unknown" ->
                Ok(values.st, Unknown_indirect(values.vals, values.st.heap))
         [] OTHER -> Ok(full, Array(Len(full.heap), NoSpan))

\* the elements of a splat and the chain of keys applied to each of them
splat_of(splat, expr, scope, on) ==
    LET iterable == IF on.val.t = "array" THEN on.st.heap[on.val.ref].items ELSE <<on.val>>
        empty == alloc(on.st, ListCell(<<>>))
    IN CASE on.err # NoErr -> on
         [] on.val.t = "null" -> Ok(empty, Array(Len(empty.heap), NoSpan))
         [] OTHER -> splat_result(on.val,
                                  splat_items(splat, iterable, expr.keys, scope, <<>>, on.st))

_eval_attr_splat(expr, scope, st) ==
    splat_of("AttrSplat", expr, scope, eval(expr.on, scope, st))

_eval_index_splat(expr, scope, st) ==
    splat_of("IndexSplat", expr, scope, eval(expr.on, scope, st))

\* The span of the node attached to every result, one that has a span too.
attach_span_always(expr, r) ==
    IF r.err = NoErr THEN Ok(r.st, with_span(r.val, expr.span)) ELSE r

\* Evaluator.eval, after the match: the span of the node is attached to a
\* result that has none.
attach_span(expr, r) ==
    IF r.err = NoErr /\ r.val.span = NoSpan
    THEN Ok(r.st, with_span(r.val, expr.span))
    ELSE r

\* Evaluator.eval, the match statement: dispatch on the node's class, in a
\* state where the node is entered.  The value it gives is the computed one,
\* with the span it carries, or with none.
eval_match(expr, scope, entered) ==
    CASE expr.k = "Block" -> _eval_block(expr, scope, entered)
         [] expr.k = "Literal" -> _eval_literal(expr, scope, entered)
         [] expr.k = "ArrayExpression" -> _eval_array_expression(expr, scope, entered)
         [] expr.k = "ObjectExpression" -> _eval_object_expression(expr, scope, entered)
         [] expr.k = "Identifier" -> _eval_identifier(expr, scope, entered)
         [] expr.k = "Parenthesis" -> _eval_parenthesis(expr, scope, entered)
         [] expr.k = "BinaryExpression" -> _eval_binary_expression(expr, scope, entered)
         [] expr.k = "UnaryExpression" -> _eval_unary_expression(expr, scope, entered)
         [] expr.k = "Attribute" -> _eval_attribute(expr, scope, entered)
         [] expr.k = "GetAttr" -> _eval_get_attr(expr, scope, entered)
         [] expr.k = "GetIndex" -> _eval_get_index(expr, scope, entered)
         [] expr.k = "FunctionCall" -> _eval_function_call(expr, scope, entered)
         [] expr.k = "Conditional" -> _eval_conditional(expr, scope, entered)
         [] expr.k = "ForTupleExpression" ->
                _eval_for_tuple_expression(expr, scope, entered)
         [] expr.k = "ForObjectExpression" ->
                _eval_for_object_expression(expr, scope, entered)
         [] expr.k = "AttrSplat" -> _eval_attr_splat(expr, scope, entered)
         [] expr.k = "IndexSplat" -> _eval_index_splat(expr, scope, entered)
         [] OTHER -> Fail(entered, "pyhcl2::evaluator::unsupported_node")

\* Evaluator.eval: the match, and then the span of the node for a result
\* that has none.
eval(expr, scope, st) ==
    attach_span(expr, eval_match(expr, scope, [st EXCEPT !.trace = Append(@, expr.span)]))

(***************************************************************************)
(* What a caller sees of a value: its type and content without the spans,  *)
(* and of an Unknown the key tuples of its references (ref_keys in the     *)
(* tests).                                                                 *)
(***************************************************************************)
ref_keys(refs) == {r.key : r \in refs}

RECURSIVE seen(_, _)
seen(v, heap) ==
    CASE v.t = "array" ->
            [t |-> "array", items |-> [i \in DOMAIN heap[v.ref].items |->
                                          seen(heap[v.ref].items[i], heap)]]
      [] v.t = "object" ->
            [t |-> "object",
             keys |-> [i \in DOMAIN heap[v.ref].keys |-> heap[v.ref].keys[i].s],
             vals |-> [i \in DOMAIN heap[v.ref].vals |-> seen(heap[v.ref].vals[i], heap)]]
      [] v.t = "unknown" ->
            [t |-> "unknown", direct |-> ref_keys(v.direct), indirect |-> ref_keys(v.indirect)]
      [] OTHER -> with_span(v, NoSpan)

(***************************************************************************)
(* The tracker (tracker.py) and the planner (generations.py).  An          *)
(* exception of Python that is no DiagnosticError is an error named by its *)
(* class.                                                                  *)
(***************************************************************************)
\* VisitedVariablesTracker(): no key, no children.  It is not a Value.
VisitedVariablesTracker == [tracker |-> TRUE, key |-> NoneKey, children |-> <<>>]

\* VisitedVariablesTracker.items: {self: self}.items()
tracker_items(tracker) == <<<<tracker, tracker>>>>

\* EvaluationScope.__post_init__ over variables.items(): a variable that is
\* not a Value is a TypeError
scope_post_init(items) ==
    IF \E i \in DOMAIN items : "t" \notin DOMAIN items[i][2] THEN "TypeError" ELSE NoErr

\* Evaluator(**keywords): the __init__ of the dataclass takes its one field
Evaluator_init(keywords) ==
    IF keywords \subseteq {"intrinsic_functions"} THEN NoErr ELSE "TypeError"

\* resolve_variable_references.  The scope is made first, then the
\* Evaluator; the evaluation is reached only when both are made, and then
\* every name is absent from the scope: the visited keys are those of the
\* references of the result.
resolve_variable_references(node, st) ==
    CASE scope_post_init(tracker_items(VisitedVariablesTracker)) # NoErr -> Fail(st, "TypeError")
      [] Evaluator_init({"can_short_circuit", "intrinsic_functions"}) # NoErr ->
            Fail(st, "TypeError")
      [] OTHER ->
            LET st1 == [st EXCEPT !.scopes = Append(@, EvaluationScope(0, NoVariables))]
                r == eval(node, Len(st1.scopes), st1)
                resolved == resolve(r.val, r.st.heap)
            IN IF r.err # NoErr THEN r
               ELSE Ok(r.st, [t |-> "set",
                              keys |-> IF resolved.t = "unknown"
                                       THEN ref_keys(references(resolved)) ELSE {}])

\* Block.key
Block_key(block) == [i \in DOMAIN Block_keys(block) |-> Block_keys(block)[i].s]

\* {block.key(): block for block in blocks}: a key keeps its first place and
\* takes the last block
RECURSIVE blocks_by_key(_, _)
blocks_by_key(blocks, acc) ==
    IF blocks = <<>> THEN acc
    ELSE LET entry == [key |-> Block_key(Head(blocks)), block |-> Head(blocks)]
             found == {i \in DOMAIN acc : acc[i].key = entry.key}
         IN blocks_by_key(Tail(blocks),
                          IF found = {} THEN Append(acc, entry)
                          ELSE [i \in DOMAIN acc |-> IF i \in found THEN entry ELSE acc[i]])

\* nx.topological_generations: the nodes no remaining node points to, then
\* those of the rest; it stops short of the nodes of a cycle
RECURSIVE topological_generations(_, _)
topological_generations(nodes, edges) ==
    LET among == {nodes[i] : i \in DOMAIN nodes}
        free == SelectSeq(nodes, LAMBDA n : ~\E e \in edges : e[2] = n /\ e[1] \in among)
        taken == {free[i] : i \in DOMAIN free}
    IN IF free = <<>> THEN <<>>
       ELSE <<free>> \o topological_generations(SelectSeq(nodes, LAMBDA n : n \notin taken), edges)

\* _topological_generations, from the loop over blocks_by_key.items() on
RECURSIVE planner_graph(_, _, _, _)

\* the body of the loop once resolve_variable_references has returned: an
\* edge from every key of blocks_by_key among the references
planner_edges(entries, i, edges, variable_references) ==
    IF variable_references.err # NoErr THEN variable_references
    ELSE planner_graph(entries, i + 1,
             edges \cup {<<entries[j].key, entries[i].key>> :
                            j \in {l \in DOMAIN entries :
                                      entries[l].key \in variable_references.val.keys}},
             variable_references.st)

\* [[blocks_by_key[k] for k in generation] for generation in generations]
planner_layers(entries, generations) ==
    LET block_of(key) == entries[CHOOSE j \in DOMAIN entries : entries[j].key = key].block
    IN [g \in DOMAIN generations |->
           [n \in DOMAIN generations[g] |-> block_of(generations[g][n])]]

\* nx.is_directed_acyclic_graph, then the generations: the generations
\* place every node exactly when the graph has no cycle
planner_generations(entries, generations, st) ==
    LET placed == UNION {{generations[g][n] : n \in DOMAIN generations[g]} :
                            g \in DOMAIN generations}
    IN IF placed # {entries[j].key : j \in DOMAIN entries}
       THEN Fail(st, "ValueError: Graph is not a DAG")
       ELSE Ok(st, [t |-> "generations", layers |-> planner_layers(entries, generations)])

planner_graph(entries, i, edges, st) ==
    IF i <= Len(entries)
    THEN planner_edges(entries, i, edges, resolve_variable_references(entries[i].block, st))
    ELSE planner_generations(entries,
                             topological_generations([j \in DOMAIN entries |-> entries[j].key],
                                                     edges),
                             st)

_topological_generations(blocks, st) == planner_graph(blocks_by_key(blocks, <<>>), 1, {}, st)

\* if reverse: generations.reverse()
generations_reverse(generations, reverse) ==
    LET layers == generations.val.layers
    IN IF generations.err = NoErr /\ reverse
       THEN Ok(generations.st,
               [generations.val EXCEPT !.layers =
                   [g \in DOMAIN layers |-> layers[Len(layers) + 1 - g]]])
       ELSE generations

\* get_blocks_by_generation, Module.get_blocks included; block_type may be None
get_blocks_by_generation(module, block_type, reverse, st) ==
    generations_reverse(
        _topological_generations(
            SelectSeq(module, LAMBDA stmt :
                /\ stmt.k = "Block"
                /\ block_type = NoneKey \/ stmt.type.name = block_type),
            st),
        reverse)

(***************************************************************************)
(* The inputs.  Integer literals range over 0 .. MaxInt.                   *)
(***************************************************************************)
MaxInt == 1

\* The intrinsics table of the Evaluator (test_unknown_function_call).
IntrinsicTable == {"id"}

\* The scope a call without a scope argument gets: the one EvaluationScope()
\* that the def statement of eval made when the class body ran.
DefaultScope == 1
RootScope == 2
ChildScope == 3

\* Host values held by the scopes: they carry no span.
HostObject == DictCell(<<String("a", NoSpan), String("b", NoSpan)>>,
                       <<Integer(1, NoSpan), Integer(2, NoSpan)>>)
HostArray == ListCell(<<Integer(1, NoSpan), Integer(2, NoSpan)>>)
InitialHeap == <<HostObject, HostArray>>

Bindings(names) ==
    [n \in names |-> CASE n = "a" -> Integer(1, NoSpan)
                       [] n = "b" -> Array(2, NoSpan)
                       [] n = "c" -> Object(1, NoSpan)
                       [] OTHER -> String(n, NoSpan)]

ShadowBindings(names) ==
    [n \in names |-> CASE n = "a" -> String("s", NoSpan)
                       [] OTHER -> Bindings({n})[n]]

RootBindings == {Bindings({"c"}), Bindings({"a", "c"})}
ChildBindings == {ShadowBindings({"b"}), ShadowBindings({"a", "b"})}

\* The nodes.  A node built at span sp gives its i-th child the span
\* 10 * sp + i, so that the spans of one tree are distinct, as the spans
\* the parser gives are.  The parser gives the value of a literal the span
\* of the literal, but for a float.
Sub(sp, i) == 10 * sp + i

LiteralValues(sp) ==
    {Null(sp), Boolean(TRUE, sp), Boolean(FALSE, sp), String("k", sp), MkFloat(1, 2)}
        \cup {Integer(i, sp) : i \in 0 .. MaxInt}

Literals(sp) == {Literal(v, sp) : v \in LiteralValues(sp)}

IdentNames == {"a", "b", "c", "foo"}

Identifiers(sp) == {Identifier(n, sp) : n \in IdentNames}

Atoms(sp) == Literals(sp) \cup Identifiers(sp)

Key(name, sp) == GetAttrKey(Identifier(name, Sub(sp, 1)), sp)

\* foo.bar, c.a, c.zz, foo + 1, [foo], [0, 1]
Compounds(sp) ==
    {GetAttr(Identifier("foo", Sub(sp, 1)), Key("bar", Sub(sp, 2)), sp),
     GetAttr(Identifier("c", Sub(sp, 1)), Key("a", Sub(sp, 2)), sp),
     GetAttr(Identifier("c", Sub(sp, 1)), Key("zz", Sub(sp, 2)), sp),
     BinaryExpression("+", Identifier("foo", Sub(sp, 1)),
                      Literal(Integer(1, Sub(sp, 2)), Sub(sp, 2)), sp),
     ArrayExpression(<<Identifier("foo", Sub(sp, 1))>>, sp),
     ArrayExpression(<<Literal(Integer(0, Sub(sp, 1)), Sub(sp, 1)),
                       Literal(Integer(1, Sub(sp, 2)), Sub(sp, 2))>>, sp)}

Operands(sp) == Atoms(sp) \cup Compounds(sp)

BinaryOperators == {"+", "-", "*", "/", "%", "==", "!=", "<", ">", "<=", ">=", "&&", "||"}

BinaryExpressions ==
    {BinaryExpression(op, l, r, 1) : op \in BinaryOperators, l \in Operands(2), r \in Operands(3)}

UnaryExpressions == {UnaryExpression(op, e, 1) : op \in {"-", "!"}, e \in Operands(2)}

GetAttrs == {GetAttr(on, Key(name, 3), 1) : on \in Operands(2), name \in {"a", "bar"}}

\* the keys of an index are the atoms and the negative integers -i
GetIndexes ==
    LET IndexKeys(sp) ==
            Atoms(sp) \cup {UnaryExpression("-", Literal(Integer(i, Sub(sp, 1)), Sub(sp, 1)), sp) :
                                i \in 1 .. MaxInt + 1}
    IN {GetIndex(on, GetIndexKey(key, 3), 1) : on \in Operands(2), key \in IndexKeys(31)}

\* a branch whose evaluation fails, and one whose evaluation calls a function
Failing(sp) ==
    BinaryExpression("%", Literal(Integer(1, Sub(sp, 1)), Sub(sp, 1)),
                     Literal(Integer(0, Sub(sp, 2)), Sub(sp, 2)), sp)
Calling(sp) ==
    FunctionCall(Identifier("id", Sub(sp, 1)), <<Literal(Integer(1, Sub(sp, 2)), Sub(sp, 2))>>,
                 FALSE, sp)

Branches(sp) ==
    {Literal(Integer(1, sp), sp), Identifier("a", sp), Identifier("foo", sp),
     ArrayExpression(<<Identifier("b", Sub(sp, 1))>>, sp), Failing(sp), Calling(sp)}

Conditionals ==
    {Conditional(c, t, e, 1) : c \in Operands(2), t \in Branches(3), e \in Branches(4)}

Arguments ==
    {<<>>} \cup {<<x>> : x \in Branches(3)} \cup {<<x, y>> : x \in Branches(3), y \in Branches(4)}

FunctionCalls ==
    {FunctionCall(Identifier(f, 2), args, var_args, 1) :
        f \in {"id", "nope"}, args \in Arguments, var_args \in BOOLEAN}

Parentheses == {Parenthesis(e, 1) : e \in Operands(2)}

\* a = e and b = e; among the values b.a and !1, which fail
Attributes ==
    LET FailingValues(sp) ==
            {GetAttr(Identifier("b", Sub(sp, 1)), Key("a", Sub(sp, 2)), sp),
             UnaryExpression("!", Literal(Integer(1, Sub(sp, 1)), Sub(sp, 1)), sp)}
    IN {Attribute(Identifier(n, 2), e, 1) : n \in {"a", "b"}, e \in Operands(3) \cup FailingValues(3)}

\* Nodes built by hand, which the parser never gives: an index whose key is
\* an attribute key (its evaluation raises AttributeError), alone and after
\* a call, as an operand, and an operator outside the tables.
OddIndex(sp) == GetIndex(Identifier("c", Sub(sp, 1)), Key("a", Sub(sp, 2)), sp)

HandBuilt ==
    {BinaryExpression(op, l, r, 1) :
        op \in {"+", "**"},
        l \in {Literal(Integer(1, 2), 2), Identifier("foo", 2), OddIndex(2)},
        r \in {Literal(Integer(1, 3), 3), OddIndex(3),
               ArrayExpression(<<Calling(31), OddIndex(32)>>, 3)}}
      \cup {UnaryExpression("**", e, 1) :
               e \in {Literal(Boolean(TRUE, 2), 2), Identifier("foo", 2), Calling(2)}}

Expressions ==
    Operands(1) \cup Parentheses \cup BinaryExpressions \cup UnaryExpressions \cup GetAttrs
        \cup GetIndexes \cup Conditionals \cup FunctionCalls \cup HandBuilt

\* The statements of a block body, of at most MaxBody statements.  The
\* statement at position i of a body has the span Sub(1, i); a nested block
\* has the one attribute n = i, so that the objects of two nested blocks
\* differ.  The attribute s = t names the key of the other attributes.  The
\* labels of a nested block are distinct names of LabelNames ("a" is a key
\* of the host object c).
MaxBody == 3

LabelNames == {"a", "x"}

LabelLists ==
    {ls \in UNION {[1 .. n -> LabelNames] : n \in 0 .. Cardinality(LabelNames)} :
        \A i, j \in DOMAIN ls : ls[i] = ls[j] => i = j}

Labels(sp) ==
    {[i \in DOMAIN ls |-> Literal(String(ls[i], Sub(sp, 2)), Sub(sp, 2))] : ls \in LabelLists}

NestedBody(sp, i) ==
    <<Attribute(Identifier("n", Sub(sp, 3)), Literal(Integer(i, Sub(sp, 4)), Sub(sp, 4)),
                Sub(sp, 5))>>

Statements(i) ==
    {Attribute(Identifier(n, Sub(Sub(1, i), 1)), e, Sub(1, i)) :
        n \in {"t"},
        e \in {Literal(Integer(1, Sub(Sub(1, i), 2)), Sub(Sub(1, i), 2)),
               Identifier("c", Sub(Sub(1, i), 2)),
               ArrayExpression(<<Literal(Integer(0, Sub(Sub(1, i), 3)), Sub(Sub(1, i), 3))>>,
                               Sub(Sub(1, i), 2))}}
      \cup {Attribute(Identifier("s", Sub(Sub(1, i), 1)), Identifier("t", Sub(Sub(1, i), 2)),
                       Sub(1, i))}
      \cup {Block(Identifier(t, Sub(Sub(1, i), 1)), labels, NestedBody(Sub(1, i), i), Sub(1, i)) :
               t \in {"t", "u"}, labels \in Labels(Sub(1, i))}

RECURSIVE Bodies(_)
Bodies(n) ==
    IF n = 0 THEN {<<>>}
    ELSE LET shorter == Bodies(n - 1)
         IN shorter \cup {Append(body, stmt) : body \in {b \in shorter : Len(b) = n - 1},
                                               stmt \in Statements(n)}

Blocks == {Block(Identifier("root", 2), <<>>, body, 1) : body \in Bodies(MaxBody)}

\* [for k, v in collection : value if condition], with or without k and
\* with or without the condition
Collections(sp) ==
    {Identifier("b", sp), Identifier("c", sp), Identifier("foo", sp),
     Literal(Integer(1, sp), sp), Literal(String("k", sp), sp),
     ArrayExpression(<<Literal(Integer(0, Sub(sp, 1)), Sub(sp, 1)),
                       Identifier("foo", Sub(sp, 2))>>, sp)}

ForValues(sp) ==
    {Identifier("v", sp), Identifier("k", sp), Identifier("foo", sp),
     Literal(Integer(1, sp), sp), Failing(sp),
     BinaryExpression("+", Identifier("v", Sub(sp, 1)),
                      Literal(Integer(1, Sub(sp, 2)), Sub(sp, 2)), sp)}

ForConditions(sp) ==
    {NoNode, Literal(Boolean(TRUE, sp), sp), Literal(Boolean(FALSE, sp), sp),
     Literal(Integer(1, sp), sp), Identifier("foo", sp),
     BinaryExpression("==", Identifier("v", Sub(sp, 1)),
                      Literal(Integer(1, Sub(sp, 2)), Sub(sp, 2)), sp)}

ForTupleExpressions ==
    {ForTupleExpression(key_ident, Identifier("v", 3), collection, value, condition, 1) :
        key_ident \in {NoNode, Identifier("k", 2)}, collection \in Collections(4),
        value \in ForValues(5), condition \in ForConditions(6)}

ForObjectExpressions ==
    LET ForKeys(sp) ==
            {Identifier("k", sp), Identifier("v", sp), Identifier("foo", sp),
             Literal(String("x", sp), sp), Literal(Integer(1, sp), sp)}
    IN {ForObjectExpression(key_ident, Identifier("v", 3), collection, key, value, condition,
                            grouping_mode, 1) :
           key_ident \in {NoNode, Identifier("k", 2)}, collection \in Collections(4),
           key \in ForKeys(5), value \in ForValues(6), condition \in ForConditions(7),
           grouping_mode \in BOOLEAN}

\* The object expressions of one or two fields: field i has the key at span
\* Sub(1, 2 * i - 1) and the value at span Sub(1, 2 * i).  The fields are a
\* dict whose keys are nodes, which are compared without their spans: of two
\* fields with equal keys the constructor keeps one.
ObjectExpressions ==
    LET ObjectKeys(sp) ==
            <<Identifier("a", sp), Identifier("b", sp), Literal(String("k", sp), sp),
              Literal(Integer(1, sp), sp),
              Parenthesis(Identifier("foo", Sub(sp, 1)), sp),
              Parenthesis(Literal(String("a", Sub(sp, 1)), Sub(sp, 1)), sp)>>
        ObjectValues(sp) ==
            {Literal(Integer(1, sp), sp), Identifier("foo", sp), Identifier("c", sp),
             GetAttr(Identifier("foo", Sub(sp, 1)), Key("bar", Sub(sp, 2)), sp),
             ArrayExpression(<<Identifier("foo", Sub(sp, 1))>>, sp)}
        ObjectField(i, key, value) ==
            <<ObjectKeys(Sub(1, 2 * i - 1))[key], value>>
    IN {ObjectExpression(<<ObjectField(1, key, value)>>, 1) :
           key \in DOMAIN ObjectKeys(11), value \in ObjectValues(12)}
          \cup {ObjectExpression(<<ObjectField(1, keys[1], v), ObjectField(2, keys[2], w)>>, 1) :
                   keys \in (DOMAIN ObjectKeys(11)) \X (DOMAIN ObjectKeys(13)),
                   v \in ObjectValues(12), w \in ObjectValues(14)}

Nodes ==
    Expressions \cup Attributes \cup ForTupleExpressions \cup ForObjectExpressions
        \cup ObjectExpressions

(***************************************************************************)
(* The state: the heap and the scopes, which outlive a call of eval, the   *)
(* number of calls made, the number of calls the host made on a container  *)
(* or a scope, and, of the last call, what it was given, what it found     *)
(* (prev) and what it gave.                                                *)
(***************************************************************************)
VARIABLES heap, scopes, evals, hosts, last, prev

vars == <<heap, scopes, evals, hosts, last, prev>>

NoCall == [expr |-> NoNode, scope |-> 0, err |-> NoErr, val |-> Null(NoSpan),
           trace |-> <<>>, calls |-> <<>>]

Init ==
    /\ heap = InitialHeap
    /\ \E root \in RootBindings, child \in ChildBindings :
          scopes = <<EvaluationScope(0, NoVariables), EvaluationScope(0, root),
                     EvaluationScope(RootScope, child)>>
    /\ evals = 0
    /\ hosts = 0
    /\ last = NoCall
    /\ prev = [heap |-> <<>>, scopes |-> <<>>]

\* what a call of eval leaves behind: the objects it changed, and what the
\* caller got
Returned(expr, scope, r) ==
    /\ heap' = r.st.heap
    /\ scopes' = r.st.scopes
    /\ evals' = evals + 1
    /\ hosts' = hosts
    /\ last' = [expr |-> expr, scope |-> scope, err |-> r.err, val |-> r.val,
                trace |-> r.st.trace, calls |-> r.st.calls]
    /\ prev' = [heap |-> heap, scopes |-> scopes]

\* Evaluator(IntrinsicTable).eval(expr, scope)
Call(expr, scope) ==
    Returned(expr, scope,
             eval(expr, scope, [heap |-> heap, scopes |-> scopes,
                                intrinsic_functions |-> IntrinsicTable,
                                trace |-> <<>>, calls |-> <<>>]))

\* eval(expr, scope) with a scope of the caller
Eval ==
    /\ evals = 0
    /\ \E expr \in Nodes, scope \in {RootScope, ChildScope} : Call(expr, scope)

\* eval(expr): the scope is the default of the parameter
EvalDefault ==
    /\ evals = 0
    /\ \E expr \in Nodes : Call(expr, DefaultScope)

\* eval(block, scope) of a configuration block, with the scope of its file
EvalBlock ==
    /\ evals = 0
    /\ \E block \in Blocks : Call(block, RootScope)

Next == Eval \/ EvalDefault \/ EvalBlock

Spec == Init /\ [][Next]_vars

(***************************************************************************)
(* A session: up to MaxEvals calls, one after the other, of eval on one    *)
(* Evaluator, each with a scope of the caller or with none.                *)
(***************************************************************************)
MaxEvals == 2

SessionNodes ==
    {Attribute(Identifier("a", 2), Literal(Integer(1, 3), 3), 1),
     Attribute(Identifier("d", 2), Identifier("a", 3), 1),
     Attribute(Identifier("b", 2), ArrayExpression(<<Identifier("d", 31)>>, 3), 1),
     Block(Identifier("root", 2), <<>>, <<Attribute(Identifier("a", 111), Identifier("d", 112), 11)>>, 1),
     Identifier("a", 1), Identifier("d", 1), Identifier("b", 1)}

SessionEval ==
    /\ evals < MaxEvals
    /\ \E expr \in SessionNodes, scope \in {RootScope, ChildScope} : Call(expr, scope)

SessionEvalDefault ==
    /\ evals < MaxEvals
    /\ \E expr \in SessionNodes : Call(expr, DefaultScope)

\* Between two calls of eval the host may change what it holds and a later
\* call can reach: an Array or an Object bound in a scope, and a scope.  The
\* mixins of MutableSequence and MutableMapping (append, pop, update, ...)
\* are made of these calls.  A session has up to MaxHostCalls of them.
MaxHostCalls == 1

HostIndexes == {0, 2}
HostItems == {Integer(0, NoSpan)}
HostKeys == {String("a", NoSpan), String("z", NoSpan)}

Held(type) ==
    {v.ref : v \in {x \in UNION {{scopes[s].variables[n] : n \in DOMAIN scopes[s].variables} :
                                    s \in DOMAIN scopes} : x.t = type}}

\* what a call of the host leaves behind
HostReturned(call, err, h, s) ==
    /\ heap' = h
    /\ scopes' = s
    /\ evals' = evals
    /\ hosts' = hosts + 1
    /\ last' = [NoCall EXCEPT !.expr = call, !.err = err]
    /\ prev' = [heap |-> heap, scopes |-> scopes]

\* array.insert(index, value)
HostArrayInsert ==
    /\ hosts < MaxHostCalls
    /\ \E on \in Held("array"), index \in HostIndexes, value \in HostItems :
          HostReturned([k |-> "Array.insert", on |-> on, index |-> index, value |-> value],
                       NoErr, [heap EXCEPT ![on] = Array_insert(@, index, value)], scopes)

\* array[index] = value
HostArraySetItem ==
    /\ hosts < MaxHostCalls
    /\ \E on \in Held("array"), index \in HostIndexes, value \in HostItems :
          LET r == Array_setitem(heap[on], index, value)
          IN HostReturned([k |-> "Array.__setitem__", on |-> on, index |-> index,
                           value |-> value],
                          r.err, [heap EXCEPT ![on] = r.cell], scopes)

\* del array[index]
HostArrayDelItem ==
    /\ hosts < MaxHostCalls
    /\ \E on \in Held("array"), index \in HostIndexes :
          LET r == Array_delitem(heap[on], index)
          IN HostReturned([k |-> "Array.__delitem__", on |-> on, index |-> index],
                          r.err, [heap EXCEPT ![on] = r.cell], scopes)

\* object[key] = value
HostObjectSetItem ==
    /\ hosts < MaxHostCalls
    /\ \E on \in Held("object"), key \in HostKeys, value \in HostItems :
          HostReturned([k |-> "Object.__setitem__", on |-> on, key |-> key, value |-> value],
                       NoErr, [heap EXCEPT ![on] = Object_setitem(@, key, value)], scopes)

\* del object[key]
HostObjectDelItem ==
    /\ hosts < MaxHostCalls
    /\ \E on \in Held("object"), key \in HostKeys :
          LET r == Object_delitem(heap[on], key)
          IN HostReturned([k |-> "Object.__delitem__", on |-> on, key |-> key],
                          r.err, [heap EXCEPT ![on] = r.cell], scopes)

\* scope[key] = value
HostScopeSetItem ==
    /\ hosts < MaxHostCalls
    /\ \E scope \in {DefaultScope, RootScope, ChildScope}, key \in {"d"},
          value \in HostItems :
          HostReturned([k |-> "EvaluationScope.__setitem__", scope |-> scope, key |-> key,
                        value |-> value],
                       NoErr, heap,
                       scope_setitem([heap |-> heap, scopes |-> scopes], scope, key,
                                     value).scopes)

SessionNext ==
    \/ SessionEval
    \/ SessionEvalDefault
    \/ HostArrayInsert
    \/ HostArraySetItem
    \/ HostArrayDelItem
    \/ HostObjectSetItem
    \/ HostObjectDelItem
    \/ HostScopeSetItem

SessionSpec == Init /\ [][SessionNext]_vars

(***************************************************************************)
(* Two calls of eval on one Evaluator: an attribute of a file, evaluated   *)
(* in the scope of the file, and then any node.  The first call binds a    *)
(* value that carries the span of a literal, or an Array or an Object      *)
(* whose elements carry the spans of their literals, beside the bindings   *)
(* of the host, which carry no span.                                       *)
(***************************************************************************)
SpanBinders ==
    {Attribute(Identifier("a", 2), Literal(Integer(1, 3), 3), 1),
     Attribute(Identifier("b", 2),
               ArrayExpression(<<Literal(Integer(0, 31), 31), Literal(Integer(1, 32), 32)>>, 3),
               1),
     Attribute(Identifier("c", 2),
               ObjectExpression(<<<<Identifier("a", 31), Literal(Integer(1, 32), 32)>>>>, 3),
               1)}

\* the splats of a name, without keys and with one key
SpanSplats ==
    {AttrSplat(Identifier(n, 2), keys, 1) :
        n \in IdentNames, keys \in {<<>>, <<Key("a", 3)>>}}
      \cup {IndexSplat(Identifier(n, 2), keys, 1) :
               n \in IdentNames,
               keys \in {<<>>, <<GetIndexKey(Literal(Integer(0, 31), 31), 3)>>}}

SpanBind ==
    /\ evals = 0
    /\ \E attr \in SpanBinders : Call(attr, RootScope)

SpanEval ==
    /\ evals = 1
    /\ last.expr \in SpanBinders
    /\ \E expr \in Nodes \cup SpanSplats, scope \in {RootScope, ChildScope} :
          Call(expr, scope)

SpanNext == SpanBind \/ SpanEval

SpanSpec == Init /\ [][SpanNext]_vars

(***************************************************************************)
(* Value.infer on a host object, from the same states.                     *)
(***************************************************************************)
HostValues ==
    LET Host(v) == [h |-> "Value", v |-> v]
        HostStr(s) == [h |-> "str", s |-> s]
        HostInt(i) == [h |-> "int", i |-> i]
        HostList(items) == [h |-> "list", items |-> items]
        HostDict(keys, vals) == [h |-> "dict", keys |-> keys, vals |-> vals]
        Primitives ==
            {[h |-> "NoneType"], [h |-> "bool", b |-> TRUE], [h |-> "bool", b |-> FALSE],
             [h |-> "float", raw |-> MkFloat(3, 2).raw], [h |-> "float", raw |-> NaN],
             HostStr("hello"), HostStr("1"),
             [h |-> "PosixPath", s |-> "/tmp/example"], [h |-> "object"]}
                \cup {HostInt(i) : i \in 0 .. MaxInt}
        Values ==
            {Host(Null(NoSpan)), Host(Boolean(TRUE, NoSpan)), Host(Integer(1, NoSpan)),
             Host(String("a", NoSpan)), Host(Unknown({}, {}, NoSpan)),
             Host(Object(1, NoSpan)), Host(Array(2, NoSpan))}
        Leaves == Primitives \cup Values
        Keys == {HostStr("a"), HostStr("1"), HostInt(1)}
        Lists == {HostList(<<>>)} \cup {HostList(<<x>>) : x \in Leaves}
                     \cup {HostList(<<x, y>>) : x, y \in Leaves}
        Dicts == {HostDict(<<>>, <<>>)} \cup {HostDict(<<k>>, <<x>>) : k \in Keys, x \in Leaves}
                     \cup {HostDict(kl, <<x, y>>) :
                               kl \in {p \in Keys \X Keys : p[1] # p[2]}, x, y \in Primitives}
        Nested == {HostList(<<x>>) : x \in Lists \cup Dicts}
                      \cup {HostDict(<<HostStr("a")>>, <<x>>) : x \in Lists \cup Dicts}
    IN Leaves \cup Lists \cup Dicts \cup Nested

\* Value.infer(raw)
Infer ==
    /\ evals = 0
    /\ \E object \in HostValues :
          Returned([k |-> "Value.infer", raw |-> object], 0,
                   infer(object, [heap |-> heap, scopes |-> scopes,
                                  intrinsic_functions |-> IntrinsicTable,
                                  trace |-> <<>>, calls |-> <<>>]))

InferSpec == Init /\ [][Infer]_vars

(***************************************************************************)
(* The tracker on a node and the planner on a module, from the same        *)
(* states.  A module is up to MaxBlocks statements.                        *)
(***************************************************************************)
MaxBlocks == 2

\* A { x = 1 }, B { y = A.x }, A { x = B.y }, A { x = A.x }, and a = 1
PlannerStatements ==
    LET Ref(t, n, sp) == GetAttr(Identifier(t, Sub(sp, 1)), Key(n, Sub(sp, 2)), sp)
        PlannerBlock(t, n, e) ==
            Block(Identifier(t, 11), <<>>, <<Attribute(Identifier(n, 121), e, 12)>>, 1)
    IN {PlannerBlock("A", "x", Literal(Integer(1, 122), 122)),
        PlannerBlock("B", "y", Ref("A", "x", 122)),
        PlannerBlock("A", "x", Ref("B", "y", 122)),
        PlannerBlock("A", "x", Ref("A", "x", 122)),
        Attribute(Identifier("a", 2), Literal(Integer(1, 3), 3), 1)}

Modules == UNION {[1 .. n -> PlannerStatements] : n \in 0 .. MaxBlocks}

\* resolve_variable_references(node)
Resolve ==
    /\ evals = 0
    /\ \E node \in Nodes \cup Blocks :
          Returned([k |-> "resolve_variable_references", node |-> node], 0,
                   resolve_variable_references(node,
                       [heap |-> heap, scopes |-> scopes,
                        intrinsic_functions |-> IntrinsicTable,
                        trace |-> <<>>, calls |-> <<>>]))

\* get_blocks_by_generation(module, block_type, reverse)
Generations ==
    /\ evals = 0
    /\ \E module \in Modules, block_type \in {NoneKey, "A", "B"}, reverse \in BOOLEAN :
          Returned([k |-> "get_blocks_by_generation", module |-> module,
                    block_type |-> block_type, reverse |-> reverse], 0,
                   get_blocks_by_generation(module, block_type, reverse,
                       [heap |-> heap, scopes |-> scopes,
                        intrinsic_functions |-> IntrinsicTable,
                        trace |-> <<>>, calls |-> <<>>]))

PlannerNext == Resolve \/ Generations

PlannerSpec == Init /\ [][PlannerNext]_vars

(***************************************************************************)
(* The properties.  They speak of the last call: of what it was given      *)
(* (last.expr, last.scope, and prev, the heap and the scopes it started    *)
(* from) and of what it gave (last.err, last.val, last.trace, last.calls,  *)
(* and the heap and the scopes it left).                                   *)
(***************************************************************************)
Range(seq) == {seq[i] : i \in DOMAIN seq}

\* the state the last call started from
Before ==
    [heap |-> prev.heap, scopes |-> prev.scopes, intrinsic_functions |-> IntrinsicTable,
     trace |-> <<>>, calls |-> <<>>]

\* The keys of the references a value carries: those of an Unknown, direct
\* and indirect, and those of the elements of a container.
RECURSIVE RefsOf(_, _)
RefsOf(v, h) ==
    CASE v.t = "unknown" -> ref_keys(v.direct \cup v.indirect)
      [] v.t = "array" -> UNION {RefsOf(h[v.ref].items[i], h) : i \in DOMAIN h[v.ref].items}
      [] v.t = "object" -> UNION {RefsOf(h[v.ref].vals[i], h) : i \in DOMAIN h[v.ref].vals}
      [] OTHER -> {}

\* v is an Unknown with these keys in its direct and in its indirect set
IsUnknown(v, direct, indirect) ==
    /\ v.t = "unknown"
    /\ ref_keys(v.direct) = direct
    /\ ref_keys(v.indirect) = indirect

\* the last call gave what r gives: the same error, or the same value
Gave(r) ==
    /\ last.err = r.err
    /\ r.err = NoErr => seen(last.val, heap) = seen(r.val, r.st.heap)

\* the statement a = 1
BindA == Attribute(Identifier("a", 2), Literal(Integer(1, 3), 3), 1)

\* C1: calls of eval without a scope are isolated from each other: when a
\* call without a scope has evaluated the statement a = 1, the next call
\* without a scope that evaluates the identifier a does not see the binding
\* and gives an Unknown.
C1_DefaultScopeIsolated ==
    [][(/\ last.expr = BindA
        /\ last.scope = DefaultScope
        /\ last.err = NoErr
        /\ last'.expr = Identifier("a", 1)
        /\ last'.scope = DefaultScope)
       => (last'.err = NoErr /\ last'.val.t = "unknown")]_vars

\* the frames from a scope to the root, nearest first
RECURSIVE Chain(_, _)
Chain(scs, s) == IF s = 0 THEN <<>> ELSE <<s>> \o Chain(scs, scs[s].parent)

\* C2: evaluating Identifier(n) in a scope gives the value n is bound to in
\* the nearest frame of the chain from the scope to the root that binds n,
\* and, when no frame of the chain binds n, an Unknown whose direct set is
\* {(n,)} and whose indirect set is empty.
C2_IdentifierLookup ==
    last.expr.k = "Identifier" =>
        LET n == last.expr.name
            chain == Chain(prev.scopes, last.scope)
            binding == {i \in DOMAIN chain : n \in DOMAIN prev.scopes[chain[i]].variables}
            nearest == CHOOSE i \in binding : \A j \in binding : i <= j
        IN /\ last.err = NoErr
           /\ IF binding # {}
              THEN seen(last.val, heap) = seen(prev.scopes[chain[nearest]].variables[n], prev.heap)
              ELSE IsUnknown(last.val, {<<n>>}, {})

\* a is bound in the child frame and in the root frame, and the call, made
\* with the child frame, gives the binding of the child frame
C2_Shadowed ==
    /\ last.expr = Identifier("a", 1)
    /\ last.scope = ChildScope
    /\ "a" \in DOMAIN prev.scopes[ChildScope].variables
    /\ "a" \in DOMAIN prev.scopes[RootScope].variables
    /\ last.val = String("s", 1)

\* C3: for every binary operator and for either position of the operand,
\* when the left or the right operand evaluates to an Unknown, the binary
\* expression evaluates to an Unknown whose direct set is empty and whose
\* indirect set is the union of the references of both operands.
C3_BinaryUnknown ==
    last.expr.k = "BinaryExpression" =>
        LET left == eval(last.expr.left, last.scope, Before)
            right == eval(last.expr.right, last.scope, left.st)
        IN (/\ left.err = NoErr
            /\ right.err = NoErr
            /\ left.val.t = "unknown" \/ right.val.t = "unknown")
           => /\ last.err = NoErr
              /\ IsUnknown(last.val, {},
                           RefsOf(left.val, right.st.heap) \cup RefsOf(right.val, right.st.heap))

\* C4: GetAttr with the key k, or GetIndex with a key that evaluates to the
\* String k, of an Unknown u gives an Unknown whose direct set is the paths
\* of u.direct extended by k ({(None, k)} when u.direct is empty) and whose
\* indirect set is u.direct \cup u.indirect; GetIndex with a key that
\* evaluates to an Integer gives an Unknown whose direct set is empty and
\* whose indirect set is u.direct \cup u.indirect.
C4_PathOfUnknown ==
    last.expr.k \in {"GetAttr", "GetIndex"} =>
        LET on == eval(last.expr.on, last.scope, Before)
            key == IF last.expr.k = "GetAttr"
                   THEN Ok(on.st, as_string(last.expr.key.ident))
                   ELSE eval(last.expr.key.expr, last.scope, on.st)
            u == on.val
            extended(k) == IF u.direct = {} THEN {<<NoneKey, k>>}
                           ELSE {Append(r.key, k) : r \in u.direct}
        IN (on.err = NoErr /\ u.t = "unknown" /\ key.err = NoErr)
           => CASE key.val.t = "string" ->
                      /\ last.err = NoErr
                      /\ IsUnknown(last.val, extended(key.val.s),
                                   ref_keys(u.direct \cup u.indirect))
                [] key.val.t = "integer" ->
                      /\ last.err = NoErr
                      /\ IsUnknown(last.val, {}, ref_keys(u.direct \cup u.indirect))
                [] OTHER -> TRUE

\* foo.bar["k"]: the path (foo, bar) of an Unknown is extended by k
C4_PathExtended ==
    /\ last.expr.k = "GetIndex"
    /\ last.expr.on.k = "GetAttr"
    /\ last.err = NoErr
    /\ IsUnknown(last.val, {<<"foo", "bar", "k">>}, {<<"foo">>, <<"foo", "bar">>})

\* C5: evaluating Conditional(cond, then, else): when cond is Boolean(true)
\* only the then branch is evaluated and the call gives what it gives; when
\* cond is Boolean(false) only the else branch is evaluated and the call
\* gives what it gives; when cond is an Unknown both branches are evaluated
\* (the else branch unless the then branch fails) and, when neither fails,
\* the call gives an Unknown whose direct set is empty and whose indirect set
\* is the union of the references of cond and of the values of both
\* branches; when cond is of any other type no branch is evaluated and the
\* call fails with conditional::unsupported_condition.
C5_Conditional ==
    last.expr.k = "Conditional" =>
        LET cond == eval(last.expr.cond, last.scope, Before)
            then_value == eval(last.expr.then_expr, last.scope, cond.st)
            else_value == eval(last.expr.else_expr, last.scope, cond.st)
            else_after == eval(last.expr.else_expr, last.scope, then_value.st)
            entered(e) == e.span \in Range(last.trace)
        IN CASE cond.err # NoErr -> last.err = cond.err
             [] cond.val.t = "boolean" /\ cond.val.b ->
                    /\ entered(last.expr.then_expr)
                    /\ ~entered(last.expr.else_expr)
                    /\ Gave(then_value)
             [] cond.val.t = "boolean" ->
                    /\ entered(last.expr.else_expr)
                    /\ ~entered(last.expr.then_expr)
                    /\ Gave(else_value)
             [] cond.val.t = "unknown" ->
                    /\ entered(last.expr.then_expr)
                    /\ IF then_value.err # NoErr THEN last.err = then_value.err
                       ELSE /\ entered(last.expr.else_expr)
                            /\ IF else_after.err # NoErr THEN last.err = else_after.err
                               ELSE /\ last.err = NoErr
                                    /\ IsUnknown(last.val, {},
                                           RefsOf(cond.val, heap) \cup RefsOf(then_value.val, heap)
                                               \cup RefsOf(else_after.val, heap))
             [] OTHER ->
                    /\ ~entered(last.expr.then_expr)
                    /\ ~entered(last.expr.else_expr)
                    /\ last.err = "pyhcl2::evaluator::conditional::unsupported_condition"

\* true ? 1 : 1 % 0: the else branch, which would fail, is not evaluated
C5_FailingBranchSkipped ==
    /\ last.expr.k = "Conditional"
    /\ last.expr.cond = Literal(Boolean(TRUE, 2), 2)
    /\ last.expr.then_expr = Literal(Integer(1, 3), 3)
    /\ last.expr.else_expr = Failing(4)
    /\ last.err = NoErr
    /\ last.val = Integer(1, 3)
    /\ last.trace = <<1, 2, 3>>

\* the calls the last call made to the intrinsic of its own function call
OwnCalls == SelectSeq(last.calls, LAMBDA c : c.span = last.expr.span)

\* a value that resolves to an Unknown: an Unknown, or a container with an
\* element that resolves to an Unknown
RECURSIVE ResolvesToUnknown(_, _)
ResolvesToUnknown(v, h) ==
    CASE v.t = "unknown" -> TRUE
      [] v.t = "array" ->
            \E i \in DOMAIN h[v.ref].items : ResolvesToUnknown(h[v.ref].items[i], h)
      [] v.t = "object" ->
            \E i \in DOMAIN h[v.ref].vals : ResolvesToUnknown(h[v.ref].vals[i], h)
      [] OTHER -> FALSE

\* C6: for a FunctionCall without var-args whose name is in the intrinsics
\* table, the arguments are evaluated, all of them and in order, before
\* anything else; when an argument fails the call fails as it does; when an
\* argument resolves to an Unknown the intrinsic is not invoked and the call
\* gives an Unknown whose direct set is empty and whose indirect set is the
\* union of the references of the arguments; when every argument is concrete
\* the intrinsic is invoked exactly once, with the values of the arguments.
C6_FunctionCall ==
    (/\ last.expr.k = "FunctionCall"
     /\ ~last.expr.var_args
     /\ last.expr.ident.name \in IntrinsicTable) =>
        LET args == eval_each(last.expr.args, last.scope, Before, <<>>)
            h == args.st.heap
        IN CASE args.err # NoErr -> last.err = args.err /\ OwnCalls = <<>>
             [] \E i \in DOMAIN args.vals : ResolvesToUnknown(args.vals[i], h) ->
                    /\ \A i \in DOMAIN last.expr.args : last.expr.args[i].span \in Range(last.trace)
                    /\ OwnCalls = <<>>
                    /\ last.err = NoErr
                    /\ IsUnknown(last.val, {},
                                 UNION {RefsOf(args.vals[i], h) : i \in DOMAIN args.vals})
             [] OTHER ->
                    /\ \A i \in DOMAIN last.expr.args : last.expr.args[i].span \in Range(last.trace)
                    /\ Len(OwnCalls) = 1
                    /\ OwnCalls[1].name = last.expr.ident.name
                    /\ OwnCalls[1].args = args.vals

\* id(1, [b]) with b unbound: the second argument is an array that holds an
\* Unknown, and id is not called
C6_UnknownInArray ==
    /\ last.expr.k = "FunctionCall"
    /\ last.expr.ident.name = "id"
    /\ ~last.expr.var_args
    /\ Len(last.expr.args) = 2
    /\ last.expr.args[1] = Literal(Integer(1, 3), 3)
    /\ last.expr.args[2].k = "ArrayExpression"
    /\ last.calls = <<>>
    /\ IsUnknown(last.val, {}, {<<"b">>})

\* the nested blocks of a body with the type t and no label, in source order
Unlabelled(body, t) ==
    SelectSeq(body, LAMBDA stmt : stmt.k = "Block" /\ stmt.type.name = t /\ stmt.labels = <<>>)

BlockTypes(body) == {body[i].type.name : i \in {j \in DOMAIN body : body[j].k = "Block"}}

AttributeKeys(body) == {body[i].key.name : i \in {j \in DOMAIN body : body[j].k = "Attribute"}}

\* the object a nested block evaluates to
ObjectOf(nested) ==
    LET r == eval(nested, last.scope, Before)
    IN seen(r.val, r.st.heap)

\* the value v is an array of the objects of these nested blocks, in order
ArrayOfBlocks(v, blocks) ==
    /\ v.t = "array"
    /\ seen(v, heap).items = [j \in DOMAIN blocks |-> ObjectOf(blocks[j])]

\* in the object the last call gave, the key t holds the array of the
\* objects of the unlabelled nested blocks of type t
HoldsUnlabelled(t) ==
    LET i == dict_find(heap[last.val.ref], t)
    IN /\ i # 0
       /\ ArrayOfBlocks(heap[last.val.ref].vals[i], Unlabelled(last.expr.body, t))

\* C7, as the claim has it: evaluating a Block whose body has several
\* unlabelled nested blocks of the same type t gives an object in which the
\* key t holds an array with one object per nested block, in source order.
C7_UnlabelledBlocks ==
    (last.expr.k = "Block" /\ last.err = NoErr) =>
        \A t \in BlockTypes(last.expr.body) :
            Len(Unlabelled(last.expr.body, t)) >= 2 => HoldsUnlabelled(t)

\* C7, amended: evaluating a Block whose body has one or more unlabelled
\* nested blocks of the type t, and no attribute with the key t, gives, when
\* it does not fail, an object in which the key t holds an array with one
\* object per unlabelled nested block of type t, in source order.
C7_UnlabelledBlocksNoAttribute ==
    (last.expr.k = "Block" /\ last.err = NoErr) =>
        \A t \in BlockTypes(last.expr.body) \ AttributeKeys(last.expr.body) :
            Len(Unlabelled(last.expr.body, t)) >= 1 => HoldsUnlabelled(t)

\* t { n = 1 }, u { n = 2 }, t { n = 3 }: t holds the first and the third
C7_TwoOfThree ==
    /\ last.expr.k = "Block"
    /\ Len(last.expr.body) = 3
    /\ Len(Unlabelled(last.expr.body, "t")) = 2
    /\ Len(Unlabelled(last.expr.body, "u")) = 1
    /\ last.err = NoErr
    /\ HoldsUnlabelled("t")
    /\ HoldsUnlabelled("u")

\* the names of the key path of a nested block
PathOf(nested) == [j \in DOMAIN Block_keys(nested) |-> Block_keys(nested)[j].s]

\* the value reached from v through the keys, each but the last one of an
\* object
RECURSIVE Follow(_, _, _)
Follow(v, keys, h) ==
    IF keys = <<>> THEN [found |-> TRUE, val |-> v]
    ELSE IF v.t # "object" THEN [found |-> FALSE, val |-> v]
    ELSE LET i == dict_find(h[v.ref], Head(keys))
         IN IF i = 0 THEN [found |-> FALSE, val |-> v]
            ELSE Follow(h[v.ref].vals[i], Tail(keys), h)

\* C8: evaluating a Block whose body has nested blocks with the key path
\* (k1, ..., kn), n >= 2, gives an object that has the key k1 and in which
\* following k1, ..., kn reaches the array of the objects of all the nested
\* blocks with that key path, in source order.
C8_LabelledBlocks ==
    (last.expr.k = "Block" /\ last.err = NoErr) =>
        \A i \in {j \in DOMAIN last.expr.body : last.expr.body[j].k = "Block"} :
            LET keys == PathOf(last.expr.body[i])
                reached == Follow(last.val, keys, heap)
                same == SelectSeq(last.expr.body,
                                  LAMBDA stmt : stmt.k = "Block" /\ PathOf(stmt) = keys)
            IN Len(keys) >= 2 =>
                  /\ dict_find(heap[last.val.ref], keys[1]) # 0
                  /\ reached.found
                  /\ ArrayOfBlocks(reached.val, same)

\* the block of the last call cut before its i-th statement, and what it
\* evaluates to
PrefixResult(i) ==
    eval(Block(last.expr.type, last.expr.labels, SubSeq(last.expr.body, 1, i - 1),
               last.expr.span),
         last.scope, Before)

\* an earlier attribute has the key k, or an earlier nested block the type k
SetEarlier(i, k) ==
    \E j \in 1 .. i - 1 :
        \/ last.expr.body[j].k = "Attribute" /\ last.expr.body[j].key.name = k
        \/ last.expr.body[j].k = "Block" /\ last.expr.body[j].type.name = k

\* in the object v, a component of the key path before the last one is
\* held by a value that is not an object, or the last one by a value that is
\* not an array
Occupied(v, keys, h) ==
    \/ \E m \in 1 .. Len(keys) - 1 :
          LET reached == Follow(v, SubSeq(keys, 1, m), h)
          IN reached.found /\ reached.val.t # "object"
    \/ LET reached == Follow(v, keys, h)
       IN reached.found /\ reached.val.t # "array"

\* C9: evaluating a Block fails with block::duplicate_key when the key of an
\* attribute is already in the result, set by an earlier attribute or by an
\* earlier nested block, and with block::key_conflict when the last
\* component of the key path of a nested block is held by a value that is
\* not an array, or an earlier component by a value that is not an object;
\* no object is returned.  (Of the first statement of the body that is in
\* one of these cases.)
C9_Conflicts ==
    last.expr.k = "Block" =>
        \A i \in DOMAIN last.expr.body :
            LET stmt == last.expr.body[i]
                before == PrefixResult(i)
            IN before.err = NoErr =>
                  /\ (stmt.k = "Attribute" /\ SetEarlier(i, stmt.key.name))
                        => last.err = "pyhcl2::evaluator::block::duplicate_key"
                  /\ (stmt.k = "Block" /\ Occupied(before.val, PathOf(stmt), before.st.heap))
                        => last.err = "pyhcl2::evaluator::block::key_conflict"

\* the (key, value) pairs of a concrete collection: the entries of an object
\* in insertion order, the elements of an array with their indices from 0
PairsOf(collection, h) ==
    IF collection.t = "object"
    THEN [i \in DOMAIN h[collection.ref].keys |->
            <<h[collection.ref].keys[i], h[collection.ref].vals[i]>>]
    ELSE [i \in DOMAIN h[collection.ref].items |->
            <<Integer(i - 1, NoSpan), h[collection.ref].items[i]>>]

\* the condition and the body of the for expression of the last call,
\* evaluated with the identifiers bound to a pair
Iteration(pair, st) ==
    LET bound == for_scope(last.expr, last.scope, pair, st)
        child == Len(bound.scopes)
        cond == IF last.expr.condition = NoNode THEN Ok(bound, Boolean(TRUE, NoSpan))
                ELSE eval(last.expr.condition, child, bound)
    IN [cond |-> cond, body |-> eval(last.expr.value, child, cond.st)]

\* the element is the value of the body: the same value, or, for an Unknown,
\* an Unknown with the same references
IsBodyValue(element, body) ==
    IF body.val.t = "unknown"
    THEN element.t = "unknown" /\ RefsOf(element, heap) = RefsOf(body.val, body.st.heap)
    ELSE seen(element, heap) = seen(body.val, body.st.heap)

\* C10: evaluating a ForTupleExpression over a concrete collection visits
\* the entries of an Object as (String key, value) in insertion order and the
\* elements of an Array as (Integer index from 0, value) in order, binds the
\* value identifier and the key identifier, if any, for each, and gives the
\* array of the values of the body for exactly the iterations whose
\* condition is absent or Boolean(true), in order; a collection of another
\* concrete type fails with for_tuple_expression::unsupported_collection.
\* (Of the expressions whose conditions all evaluate to a Boolean and whose
\* bodies do not fail.)
C10_ForTuple ==
    last.expr.k = "ForTupleExpression" =>
        LET collection == eval(last.expr.collection, last.scope, Before)
            pairs == PairsOf(collection.val, collection.st.heap)
            its == [i \in DOMAIN pairs |-> Iteration(pairs[i], collection.st)]
            passing == SelectSeq([i \in DOMAIN pairs |-> i], LAMBDA i : its[i].cond.val.b)
            items == heap[last.val.ref].items
        IN collection.err = NoErr =>
              CASE collection.val.t \in {"array", "object"} ->
                      (\A i \in DOMAIN pairs :
                          /\ its[i].cond.err = NoErr
                          /\ its[i].cond.val.t = "boolean"
                          /\ its[i].cond.val.b => its[i].body.err = NoErr)
                      => /\ last.err = NoErr
                         /\ last.val.t = "array"
                         /\ Len(items) = Len(passing)
                         /\ \A j \in DOMAIN passing : IsBodyValue(items[j], its[passing[j]].body)
                [] collection.val.t = "unknown" -> TRUE
                [] OTHER ->
                      last.err = "pyhcl2::evaluator::for_tuple_expression::unsupported_collection"

\* how many times eval was entered for the node at a span in the last call
Entered(sp) == Cardinality({i \in DOMAIN last.trace : last.trace[i] = sp})

\* C11: evaluating a ForTupleExpression or a ForObjectExpression whose
\* collection evaluates to an Unknown runs the body once and gives a value
\* that resolves to an Unknown with an empty direct set whose indirect set
\* holds every reference of the collection, whatever the body is.  (Of the
\* expressions without a condition whose evaluation does not fail.)
C11_ForOverUnknown ==
    (/\ last.expr.k \in {"ForTupleExpression", "ForObjectExpression"}
     /\ last.expr.condition = NoNode
     /\ last.err = NoErr) =>
        LET collection == eval(last.expr.collection, last.scope, Before)
            resolved == resolve(last.val, heap)
        IN collection.val.t = "unknown" =>
              /\ Entered(last.expr.value.span) = 1
              /\ resolved.t = "unknown"
              /\ resolved.direct = {}
              /\ RefsOf(collection.val, collection.st.heap) \subseteq ref_keys(resolved.indirect)

\* the key of a field of an object expression, as the string it resolves
\* to: r is the evaluation of a parenthesised key
FieldKey(key_expr, r) ==
    CASE key_expr.k = "Identifier" -> String(key_expr.name, NoSpan)
      [] key_expr.k = "Literal" -> key_expr.value
      [] OTHER -> r.val

\* the fields of the object expression of the last call, with the key each
\* resolves to and the evaluation of its value
FieldsOf ==
    [i \in DOMAIN last.expr.fields |->
        LET field == last.expr.fields[i]
        IN [key |-> FieldKey(field[1], eval(field[1], last.scope, Before)),
            value |-> eval(field[2], last.scope, Before)]]

\* the fields no later field of the same key replaces
KeptFields(fields) ==
    {i \in DOMAIN fields : \A j \in DOMAIN fields : j > i => fields[j].key.s # fields[i].key.s}

\* C12: for an ObjectExpression whose keys all resolve to strings and in
\* which at least one field value evaluates to an Unknown, the evaluated
\* object keeps that field, and the result resolves to an Unknown with an
\* empty direct set whose indirect set is the union of the references of the
\* Unknown field values.
C12_ObjectUnknownValue ==
    last.expr.k = "ObjectExpression" =>
        LET fields == FieldsOf
            kept == KeptFields(fields)
            unknown == {i \in kept : fields[i].value.val.t = "unknown"}
            resolved == resolve(last.val, heap)
        IN (/\ \A i \in DOMAIN fields : fields[i].key.t = "string"
            /\ \A i \in DOMAIN fields : fields[i].value.err = NoErr
            /\ unknown # {})
           => /\ last.err = NoErr
              /\ last.val.t = "object"
              /\ \A i \in unknown : dict_find(heap[last.val.ref], fields[i].key.s) # 0
              /\ resolved.t = "unknown"
              /\ resolved.direct = {}
              /\ ref_keys(resolved.indirect) =
                    UNION {RefsOf(fields[i].value.val, fields[i].value.st.heap) : i \in unknown}

\* the condition, the key and the value of the for-object expression of the
\* last call, evaluated with the identifiers bound to a pair
ObjectIteration(pair, st) ==
    LET bound == for_scope(last.expr, last.scope, pair, st)
        child == Len(bound.scopes)
        cond == IF last.expr.condition = NoNode THEN Ok(bound, Boolean(TRUE, NoSpan))
                ELSE eval(last.expr.condition, child, bound)
        key == eval(last.expr.key, child, cond.st)
    IN [cond |-> cond, key |-> key, value |-> eval(last.expr.value, child, key.st)]

\* the condition of an iteration is Boolean(true)
Passes(it) == it.cond.val.t = "boolean" /\ it.cond.val.b

\* the object that the entries (key, value) of the iterations give when they
\* are stored in order, a later entry replacing the value of an earlier one
\* with the same key
ObjectOfEntries(its, passing) ==
    LET key(j) == its[passing[j]].key.val.s
        first == SelectSeq([j \in DOMAIN passing |-> j],
                           LAMBDA j : \A e \in 1 .. (j - 1) : key(e) # key(j))
        final(j) == CHOOSE e \in DOMAIN passing :
                        /\ key(e) = key(j)
                        /\ \A l \in DOMAIN passing : key(l) = key(j) => l <= e
    IN [t |-> "object",
        keys |-> [d \in DOMAIN first |-> key(first[d])],
        vals |-> [d \in DOMAIN first |->
                    LET value == its[passing[final(first[d])]].value
                    IN seen(value.val, value.st.heap)]]

\* C13: evaluating a ForObjectExpression over a concrete collection: an
\* iteration whose condition is Boolean(true) and whose key is concrete and
\* not a String fails with for_object_expression::unsupported_key;
\* otherwise, if in any iteration the condition, or the key of an iteration
\* that passes, is an Unknown, the whole result is an Unknown whose indirect
\* set holds the references of that condition or key and of the value of
\* that iteration; otherwise the result is the object with one entry per
\* distinct String key, a later iteration replacing the value of an earlier
\* one with the same key.  (Of the expressions whose conditions evaluate to
\* a Boolean or an Unknown and whose keys and values do not fail.)
C13_ForObject ==
    (last.expr.k = "ForObjectExpression" /\ ~last.expr.grouping_mode) =>
        LET collection == eval(last.expr.collection, last.scope, Before)
            pairs == PairsOf(collection.val, collection.st.heap)
            its == [i \in DOMAIN pairs |-> ObjectIteration(pairs[i], collection.st)]
            passing == SelectSeq([i \in DOMAIN pairs |-> i], LAMBDA i : Passes(its[i]))
            bad_key == {i \in DOMAIN pairs :
                          Passes(its[i]) /\ its[i].key.val.t \notin {"unknown", "string"}}
            by_condition == {i \in DOMAIN pairs : its[i].cond.val.t = "unknown"}
            by_key == {i \in DOMAIN pairs : Passes(its[i]) /\ its[i].key.val.t = "unknown"}
            indirect == ref_keys(last.val.indirect)
        IN (/\ collection.err = NoErr
            /\ collection.val.t \in {"array", "object"}
            /\ \A i \in DOMAIN pairs :
                  /\ its[i].cond.err = NoErr
                  /\ its[i].cond.val.t \in {"boolean", "unknown"}
                  /\ its[i].key.err = NoErr
                  /\ its[i].value.err = NoErr)
           => CASE bad_key # {} ->
                      last.err = "pyhcl2::evaluator::for_object_expression::unsupported_key"
                [] by_condition \cup by_key # {} ->
                      /\ last.err = NoErr
                      /\ last.val.t = "unknown"
                      /\ \A i \in by_condition :
                            RefsOf(its[i].cond.val, its[i].cond.st.heap) \subseteq indirect
                      /\ \A i \in by_key :
                            RefsOf(its[i].key.val, its[i].key.st.heap) \subseteq indirect
                      /\ \A i \in by_condition \cup by_key :
                            RefsOf(its[i].value.val, its[i].value.st.heap) \subseteq indirect
                [] OTHER ->
                      /\ last.err = NoErr
                      /\ seen(last.val, heap) = ObjectOfEntries(its, passing)

\* the for-object expression over the array b = [1, 2] whose key is "x" in
\* both iterations gave the object with the one entry of the later iteration
C13_LaterReplacesEarlier ==
    /\ last.expr.k = "ForObjectExpression"
    /\ last.expr.key = Literal(String("x", 5), 5)
    /\ last.expr.value = Identifier("v", 6)
    /\ last.expr.collection = Identifier("b", 4)
    /\ last.err = NoErr
    /\ last.val.t = "object"
    /\ Len(heap[last.val.ref].keys) = 1
    /\ heap[last.val.ref].vals[1].t = "integer"
    /\ heap[last.val.ref].vals[1].i = 2

\* C14: GetAttr with key k on a concrete Object gives the stored value when
\* the object has k, and when it has not gives an Unknown whose direct set
\* is exactly {(None, k)}; GetAttr on a value that is neither an Object nor
\* an Unknown fails with get_attr::unsupported_type.
C14_GetAttr ==
    last.expr.k = "GetAttr" =>
        LET on == eval(last.expr.on, last.scope, Before)
            k == last.expr.key.ident.name
            i == dict_find(on.st.heap[on.val.ref], k)
        IN on.err = NoErr =>
              CASE on.val.t = "object" ->
                      /\ last.err = NoErr
                      /\ IF i # 0
                         THEN seen(last.val, heap) = seen(on.st.heap[on.val.ref].vals[i], on.st.heap)
                         ELSE IsUnknown(last.val, {<<NoneKey, k>>}, {})
                [] on.val.t = "unknown" -> TRUE
                [] OTHER -> last.err = "pyhcl2::evaluator::get_attr::unsupported_type"

\* c.bar was evaluated where c is an object without the key bar, and gave
\* the Unknown of (None, bar)
C14_MissingKey ==
    /\ last.expr.k = "GetAttr"
    /\ last.expr.on = Identifier("c", 2)
    /\ last.expr.key.ident.name = "bar"
    /\ "c" \in DOMAIN prev.scopes[RootScope].variables
    /\ last.scope # DefaultScope
    /\ last.err = NoErr
    /\ IsUnknown(last.val, {<<NoneKey, "bar">>}, {})

\* C15: GetIndex on an Array of length n with an Integer key i gives the
\* element at the zero-based position i when 0 <= i < n, and fails with
\* get_index::index_out_of_bounds for every other Integer i, a negative one
\* included.
C15_ArrayIndex ==
    last.expr.k = "GetIndex" =>
        LET on == eval(last.expr.on, last.scope, Before)
            key == eval(last.expr.key.expr, last.scope, on.st)
            items == key.st.heap[on.val.ref].items
        IN (/\ on.err = NoErr
            /\ key.err = NoErr
            /\ on.val.t = "array"
            /\ key.val.t = "integer")
           => IF 0 <= key.val.i /\ key.val.i < Len(items)
              THEN /\ last.err = NoErr
                   /\ seen(last.val, heap) = seen(items[key.val.i + 1], key.st.heap)
              ELSE last.err = "pyhcl2::evaluator::get_index::index_out_of_bounds"

\* C16: a unary `-` or `!` whose operand evaluates to an Unknown gives an
\* Unknown that carries the references of the operand; it is not an error.
C16_UnaryOfUnknown ==
    last.expr.k = "UnaryExpression" =>
        LET operand == eval(last.expr.expr, last.scope, Before)
        IN (operand.err = NoErr /\ operand.val.t = "unknown")
           => /\ last.err = NoErr
              /\ last.val.t = "unknown"
              /\ RefsOf(operand.val, operand.st.heap) \subseteq RefsOf(last.val, heap)

\* C17: a binary expression of one of the language's binary operators (those
\* of the operation table) whose left operand evaluates to a value evaluates
\* its right operand too, whatever the operator and the left value, an
\* Unknown included; so a `&&` or `||` with a Boolean on the left and a
\* right operand that evaluates to an Unknown gives an Unknown carrying the
\* references of the right operand, not a Boolean.
C17_NoShortCircuit ==
    (last.expr.k = "BinaryExpression" /\ last.expr.op \in BinaryOperators) =>
        LET left == eval(last.expr.left, last.scope, Before)
            right == eval(last.expr.right, last.scope, left.st)
        IN left.err = NoErr =>
              /\ Entered(last.expr.right.span) >= 1
              /\ (/\ right.err = NoErr
                  /\ last.expr.op \in {"&&", "||"}
                  /\ left.val.t = "boolean"
                  /\ right.val.t = "unknown")
                 => /\ last.err = NoErr
                    /\ last.val.t = "unknown"
                    /\ RefsOf(right.val, right.st.heap) \subseteq RefsOf(last.val, heap)
              /\ (right.err = NoErr /\ left.val.t = "unknown")
                 => /\ last.err = NoErr
                    /\ last.val.t = "unknown"
                    /\ RefsOf(right.val, right.st.heap) \subseteq RefsOf(last.val, heap)

\* false && foo, foo bound nowhere, gave an Unknown that refers to foo
C17_FalseAndAbsent ==
    /\ last.expr.k = "BinaryExpression"
    /\ last.expr.op = "&&"
    /\ last.expr.left = Literal(Boolean(FALSE, 2), 2)
    /\ last.expr.right = Identifier("foo", 3)
    /\ last.err = NoErr
    /\ IsUnknown(last.val, {<<"foo">>}, {})

\* C18: when both operands evaluate to concrete values (Null, Boolean,
\* Integer, Float, String, Array or Object, in either position), `a == b` and
\* `a != b` both evaluate to a Boolean without failing, and `a != b` is false
\* exactly when `a == b` is true.
C18_EqualsAndNotEquals ==
    (last.expr.k = "BinaryExpression" /\ last.expr.op \in {"==", "!="}) =>
        LET left == eval(last.expr.left, last.scope, Before)
            right == eval(last.expr.right, last.scope, left.st)
            equals == eval([last.expr EXCEPT !.op = "=="], last.scope, Before)
            not_equals == eval([last.expr EXCEPT !.op = "!="], last.scope, Before)
        IN (/\ left.err = NoErr
            /\ right.err = NoErr
            /\ RefsOf(left.val, left.st.heap) = {}
            /\ RefsOf(right.val, right.st.heap) = {})
           => /\ Gave(IF last.expr.op = "==" THEN equals ELSE not_equals)
              /\ equals.err = NoErr
              /\ not_equals.err = NoErr
              /\ equals.val.t = "boolean"
              /\ not_equals.val.t = "boolean"
              /\ not_equals.val.b = ~equals.val.b

\* C19: evaluating Attribute(k, v) in a scope evaluates v in that scope and
\* returns what v gives; when v gives a value, k is bound to it in the frame
\* of that scope, every other binding of the frame and every other frame,
\* the ancestors included, is as it was; when v fails no frame changes.
C19_AttributeBinds ==
    last.expr.k = "Attribute" =>
        LET value == eval(last.expr.value, last.scope, Before)
            key == last.expr.key.name
            before == prev.scopes[last.scope].variables
            after == scopes[last.scope].variables
        IN /\ Gave(value)
           /\ \A s \in DOMAIN prev.scopes : s # last.scope => scopes[s] = prev.scopes[s]
           /\ DOMAIN scopes = DOMAIN prev.scopes
           /\ scopes[last.scope].parent = prev.scopes[last.scope].parent
           /\ \A ref \in DOMAIN prev.heap : heap[ref] = prev.heap[ref]
           /\ IF value.err = NoErr
              THEN /\ DOMAIN after = DOMAIN before \cup {key}
                   /\ seen(after[key], heap) = seen(value.val, value.st.heap)
                   /\ \A n \in DOMAIN before : n # key => after[n] = before[n]
              ELSE after = before

\* b = 0 in the child scope, where b was an array of two elements and where
\* the root scope does not bind b
C19_ChildRebinds ==
    /\ last.expr.k = "Attribute"
    /\ last.expr.key.name = "b"
    /\ last.scope = ChildScope
    /\ last.err = NoErr
    /\ "b" \in DOMAIN prev.scopes[ChildScope].variables
    /\ prev.scopes[ChildScope].variables["b"].t = "array"
    /\ scopes[ChildScope].variables["b"].t = "integer"
    /\ "b" \notin DOMAIN scopes[RootScope].variables

\* b = b.a in the child scope, where b is an array, failed and left the
\* scopes as they were
C19_FailedValue ==
    /\ last.expr.k = "Attribute"
    /\ last.expr.key.name = "b"
    /\ last.expr.value.k = "GetAttr"
    /\ last.scope = ChildScope
    /\ last.err = "pyhcl2::evaluator::get_attr::unsupported_type"
    /\ scopes = prev.scopes

\* What the lifting of a host object is to be: ok and the value, containers
\* by their contents, or not ok for a host object of no known kind.
RECURSIVE Lifted(_)
Lifted(h) ==
    LET Gives(v) == [ok |-> TRUE, raw |-> v]
        Digits == <<"0", "1", "2", "3", "4", "5", "6", "7", "8", "9">>
        KeyText(k) == IF k.h = "str" THEN k.s ELSE Digits[k.i + 1]
    IN CASE h.h = "NoneType" -> Gives(Null(NoSpan))
         [] h.h = "bool" -> Gives(Boolean(h.b, NoSpan))
         [] h.h = "int" -> Gives(Integer(h.i, NoSpan))
         [] h.h = "float" -> Gives(Float(h.raw, NoSpan))
         [] h.h \in {"str", "PosixPath"} -> Gives(String(h.s, NoSpan))
         [] h.h = "Value" -> Gives(seen(h.v, prev.heap))
         [] h.h = "list" ->
                IF \E i \in DOMAIN h.items : ~Lifted(h.items[i]).ok
                THEN [ok |-> FALSE]
                ELSE Gives([t |-> "array",
                            items |-> [i \in DOMAIN h.items |-> Lifted(h.items[i]).raw]])
         [] h.h = "dict" ->
                LET texts == [i \in DOMAIN h.keys |-> KeyText(h.keys[i])]
                    firsts == SelectSeq([i \in DOMAIN h.keys |-> i],
                                        LAMBDA i : \A j \in 1 .. i - 1 : texts[j] # texts[i])
                    latest(i) == CHOOSE j \in DOMAIN h.keys :
                                    /\ texts[j] = texts[i]
                                    /\ \A l \in DOMAIN h.keys : texts[l] = texts[i] => l <= j
                IN IF \E i \in DOMAIN h.vals : ~Lifted(h.vals[i]).ok
                   THEN [ok |-> FALSE]
                   ELSE Gives([t |-> "object",
                               keys |-> [i \in DOMAIN firsts |-> texts[firsts[i]]],
                               vals |-> [i \in DOMAIN firsts |->
                                            Lifted(h.vals[latest(firsts[i])]).raw]])
         [] OTHER -> [ok |-> FALSE]

\* C20: Value.infer lifts None to Null, a boolean to a Boolean, an integer to
\* an Integer, a float to a Float, a string and a path to a String, a
\* sequence to an Array and a mapping to an Object of the lifted contents,
\* gives an existing Value back as it is, and fails with NotImplementedError
\* for any other host object.
C20_Infer ==
    last.expr.k = "Value.infer" =>
        LET lifted == Lifted(last.expr.raw)
        IN IF lifted.ok
           THEN /\ last.err = NoErr
                /\ seen(last.val, heap) = lifted.raw
                /\ last.expr.raw.h = "Value" => last.val = last.expr.raw.v /\ heap = prev.heap
           ELSE last.err = "NotImplementedError"

\* Python's == on two host objects: numbers, booleans among them, by their
\* value (a NaN is equal to no number); strings and paths by their text, a
\* path never equal to a string; lists item by item; dicts key by key.  An
\* item is equal to itself whatever its ==, and the raw of an inferred float
\* is the float that was inferred: a NaN at the same place is the same
\* object.
RECURSIVE py_equals(_, _)
py_equals(x, y) ==
    LET Numbers == {"bool", "int", "float"}
        number(n) == CASE n.h = "bool" -> double_of_int(IF n.b THEN 1 ELSE 0)
                       [] n.h = "int" -> double_of_int(n.i)
                       [] OTHER -> n.raw
    IN CASE x.h \in Numbers /\ y.h \in Numbers -> double_cmp(number(x), number(y)) = "eq"
         [] x.h # y.h -> FALSE
         [] x.h \in {"str", "PosixPath"} -> x.s = y.s
         [] x.h = "list" ->
                /\ Len(x.items) = Len(y.items)
                /\ \A i \in DOMAIN x.items :
                       x.items[i] = y.items[i] \/ py_equals(x.items[i], y.items[i])
         [] x.h = "dict" ->
                /\ Len(x.keys) = Len(y.keys)
                /\ \A i \in DOMAIN x.keys : \E j \in DOMAIN y.keys :
                       /\ py_equals(x.keys[i], y.keys[j])
                       /\ x.vals[i] = y.vals[j] \/ py_equals(x.vals[i], y.vals[j])
         [] OTHER -> x.h = "NoneType"

\* h is built of None, booleans, numbers, strings, paths, lists and dicts
RECURSIVE HostPrimitive(_)
HostPrimitive(h) ==
    CASE h.h \in {"Value", "object"} -> FALSE
      [] h.h = "list" -> \A i \in DOMAIN h.items : HostPrimitive(h.items[i])
      [] h.h = "dict" -> \A i \in DOMAIN h.vals : HostPrimitive(h.vals[i])
      [] OTHER -> TRUE

\* h is no path and no NaN and holds no path, and the keys of its dicts are
\* strings
RECURSIVE HostPlain(_)
HostPlain(h) ==
    CASE h.h = "PosixPath" -> FALSE
      [] h.h = "float" -> h.raw.kind # "nan"
      [] h.h = "list" -> \A i \in DOMAIN h.items : HostPlain(h.items[i])
      [] h.h = "dict" -> \A i \in DOMAIN h.vals :
                            h.keys[i].h = "str" /\ HostPlain(h.vals[i])
      [] OTHER -> TRUE

\* C21: Value.infer(v).raw() == v for every host value v that inference
\* supports: None, booleans, numbers, strings, paths, sequences and mappings
\* of these.
C21_InferRaw ==
    (last.expr.k = "Value.infer" /\ HostPrimitive(last.expr.raw)) =>
        /\ last.err = NoErr
        /\ py_equals(raw(last.val, heap).val, last.expr.raw)

\* C21, amended: the round trip is the identity when v is not the float NaN,
\* holds no path and the keys of its mappings are strings; a path comes back
\* as its text.
C21_InferRawPlain ==
    (last.expr.k = "Value.infer" /\ HostPrimitive(last.expr.raw)) =>
        /\ last.err = NoErr
        /\ HostPlain(last.expr.raw) => py_equals(raw(last.val, heap).val, last.expr.raw)
        /\ last.expr.raw.h = "PosixPath"
              => raw(last.val, heap).val = [h |-> "str", s |-> last.expr.raw.s]

\* {"a": [True, None]} went through inference and came back equal
C21_NestedRoundTrip ==
    /\ last.expr.k = "Value.infer"
    /\ last.expr.raw = [h |-> "dict", keys |-> <<[h |-> "str", s |-> "a"]>>,
                        vals |-> <<[h |-> "list", items |-> <<[h |-> "bool", b |-> TRUE],
                                                              [h |-> "NoneType"]>>]>>]
    /\ last.err = NoErr
    /\ py_equals(raw(last.val, heap).val, last.expr.raw)

\* the names a node refers to and does not bind itself
RECURSIVE NamesIn(_)
NamesIn(n) ==
    LET Each(seq) == UNION {NamesIn(seq[i]) : i \in DOMAIN seq}
        Bound == {n.value_ident.name} \cup
                     (IF n.key_ident = NoNode THEN {} ELSE {n.key_ident.name})
        Optional(e) == IF e = NoNode THEN {} ELSE NamesIn(e)
    IN CASE n.k = "Identifier" -> {n.name}
         [] n.k = "ArrayExpression" -> Each(n.values)
         [] n.k = "ObjectExpression" ->
                UNION {(IF n.fields[i][1].k = "Parenthesis" THEN NamesIn(n.fields[i][1]) ELSE {})
                           \cup NamesIn(n.fields[i][2]) : i \in DOMAIN n.fields}
         [] n.k = "FunctionCall" -> Each(n.args)
         [] n.k = "GetAttr" -> NamesIn(n.on)
         [] n.k = "GetIndex" -> NamesIn(n.on) \cup NamesIn(n.key.expr)
         [] n.k \in {"UnaryExpression", "Parenthesis"} -> NamesIn(n.expr)
         [] n.k = "BinaryExpression" -> NamesIn(n.left) \cup NamesIn(n.right)
         [] n.k = "Conditional" ->
                NamesIn(n.cond) \cup NamesIn(n.then_expr) \cup NamesIn(n.else_expr)
         [] n.k = "Attribute" -> NamesIn(n.value)
         [] n.k = "Block" -> Each(n.body)
         [] n.k = "ForTupleExpression" ->
                NamesIn(n.collection) \cup ((NamesIn(n.value) \cup Optional(n.condition)) \ Bound)
         [] n.k = "ForObjectExpression" ->
                NamesIn(n.collection)
                    \cup ((NamesIn(n.key) \cup NamesIn(n.value) \cup Optional(n.condition)) \ Bound)
         [] OTHER -> {}

\* C22: resolve_variable_references(node) completes without error for any
\* well-formed node and returns a set that holds every variable the node
\* refers to, those of an untaken branch, of both operands of && and || and
\* of the arguments of a call of any function included; for a node that
\* refers to no variable the set is empty.
C22_TrackerCompletes ==
    last.expr.k = "resolve_variable_references" =>
        /\ last.err = NoErr
        /\ \A name \in NamesIn(last.expr.node) : <<name>> \in last.val.keys
        /\ NamesIn(last.expr.node) = {} => last.val.keys = {}

\* the blocks the planner is given: those of the module, of the block type
PlannedBlocks ==
    SelectSeq(last.expr.module, LAMBDA stmt :
        /\ stmt.k = "Block"
        /\ last.expr.block_type = NoneKey \/ stmt.type.name = last.expr.block_type)

\* block b refers to the key of block c
Depends(b, c) == \E name \in NamesIn(b) : Block_key(c) = <<name>>

RECURSIVE Reach(_, _, _)
Reach(from, blocks, n) ==
    IF n = 0 THEN from
    ELSE Reach(from \cup {c \in blocks : \E b \in from : Depends(b, c)}, blocks, n - 1)

\* some block depends, in one step or more, on itself
Cyclic(blocks) ==
    \E b, c \in blocks : Depends(b, c) /\ b \in Reach({c}, blocks, Cardinality(blocks))

\* C23: for blocks whose reference graph has no cycle, the generations of
\* the planner partition the blocks, two blocks of one key included, and
\* every block a block of layer k depends on lies in a layer before k.
C23_GenerationsPartition ==
    (/\ last.expr.k = "get_blocks_by_generation"
     /\ ~last.expr.reverse
     /\ ~Cyclic(Range(PlannedBlocks))) =>
        /\ last.err = NoErr
        /\ LET layers == last.val.layers
               Layer(b) == {g \in DOMAIN layers : \E n \in DOMAIN layers[g] : layers[g][n] = b}
               Count(seq, b) == Cardinality({i \in DOMAIN seq : seq[i] = b})
           IN \A b \in Range(PlannedBlocks) :
                 /\ Cardinality(Layer(b)) = 1
                 /\ Count(PlannedBlocks, b)
                        = Cardinality({p \in (DOMAIN layers) \X (1 .. Len(PlannedBlocks)) :
                                         p[2] \in DOMAIN layers[p[1]] /\ layers[p[1]][p[2]] = b})
                 /\ \A c \in Range(PlannedBlocks) :
                        (c # b /\ Depends(b, c)) =>
                            \A g \in Layer(b), f \in Layer(c) : f < g

\* C24: for blocks whose reference graph has a cycle, a block that refers to
\* its own key included, the planner fails with 'Graph is not a DAG'.
C24_CycleIsNoDag ==
    (/\ last.expr.k = "get_blocks_by_generation"
     /\ Cyclic(Range(PlannedBlocks))) =>
        last.err = "ValueError: Graph is not a DAG"

\* the Unknowns in a value: the value itself, or those of its elements
RECURSIVE UnknownsIn(_, _)
UnknownsIn(v, h) ==
    CASE v.t = "unknown" -> {v}
      [] v.t = "array" -> UNION {UnknownsIn(h[v.ref].items[i], h) : i \in DOMAIN h[v.ref].items}
      [] v.t = "object" -> UNION {UnknownsIn(h[v.ref].vals[i], h) : i \in DOMAIN h[v.ref].vals}
      [] OTHER -> {}

\* the last call was a call of eval
Evaluated ==
    last.expr.k \notin {"None", "Value.infer", "resolve_variable_references",
                         "get_blocks_by_generation", "Array.insert", "Array.__setitem__",
                         "Array.__delitem__", "Object.__setitem__", "Object.__delitem__",
                         "EvaluationScope.__setitem__"}

\* C25: every Unknown that eval gives, as its result or at any depth inside
\* the Array or Object it gives, and the Unknown that resolve() makes of the
\* result, has a reference: its direct and indirect sets are not both empty.
C25_UnknownHasReference ==
    (Evaluated /\ last.err = NoErr) =>
        \A u \in UnknownsIn(last.val, heap) \cup UnknownsIn(resolve(last.val, heap), heap) :
            references(u) # {}

\* the state the last call left
After ==
    [heap |-> heap, scopes |-> scopes, intrinsic_functions |-> IntrinsicTable,
     trace |-> <<>>, calls |-> <<>>]

\* C26: when eval gives a value that holds no Unknown, evaluating the same
\* node again in the same scope gives an equal value: the first evaluation
\* leaves nothing behind that changes the second.
C26_SameTwice ==
    (Evaluated /\ last.err = NoErr /\ UnknownsIn(last.val, heap) = {}) =>
        LET again == eval(last.expr, last.scope, After)
        IN /\ again.err = NoErr
           /\ seen(again.val, again.st.heap) = seen(last.val, heap)

\* the values a name absent from a scope may be bound to by a larger scope:
\* 1, "k", true, the object and the array of the heap
ExtensionValues ==
    {Integer(1, NoSpan), String("k", NoSpan), Boolean(TRUE, NoSpan), Object(1, NoSpan),
     Array(2, NoSpan)}

\* C27: when eval(e, scope) gives a value whose resolve() is no Unknown, the
\* value does not depend on a name absent from the scope: in a scope that
\* binds such a name besides, eval(e) gives an equal value.
C27_ConcreteIgnoresAbsentNames ==
    (/\ Evaluated
     /\ last.err = NoErr
     /\ resolve(last.val, heap).t # "unknown") =>
        \A name \in IdentNames, value \in ExtensionValues :
            ~scope_getitem(prev.scopes, last.scope, name).found =>
                LET extended == eval(last.expr, last.scope,
                                     scope_setitem(Before, last.scope, name, value))
                IN /\ extended.err = NoErr
                   /\ seen(extended.val, extended.st.heap) = seen(last.val, heap)

\* the state in which the match of the last call started: the node entered
Entering == [Before EXCEPT !.trace = <<last.expr.span>>]

\* the value the match of the last call computed, as it was before eval
\* returned it: with the span it carried, or with none
Computed == eval_match(last.expr, last.scope, Entering)

\* the span of the element a path of the last call reached, NoSpan when the
\* path reached none (the value is then made by the evaluation, an Unknown)
ReachedByGetAttr ==
    LET on == eval(last.expr.on, last.scope, Entering)
        at == dict_find(on.st.heap[on.val.ref], last.expr.key.ident.name)
    IN IF on.val.t = "object" /\ at # 0 THEN on.st.heap[on.val.ref].vals[at].span ELSE NoSpan

ReachedByGetIndex ==
    LET on == eval(last.expr.on, last.scope, Entering)
        key == eval(last.expr.key.expr, last.scope, on.st)
        cell == key.st.heap[on.val.ref]
    IN CASE on.val.t = "object" /\ key.val.t = "string" ->
                cell.vals[dict_find(cell, key.val.s)].span
         [] on.val.t = "array" /\ key.val.t = "integer" ->
                cell.items[list_index(cell.items, key.val.i)].span
         [] on.val.t = "object" /\ key.val.t = "unknown" -> key.val.span
         [] OTHER -> NoSpan

\* The span the value computed for the last node carries, told from where
\* the value comes: the value of a literal, a binding of the scope (the
\* Unknown of a name bound nowhere has the span of the name), the element a
\* path reaches, the value of the node below (of the branch taken, of the
\* right operand an operator hands on, of the argument the function id
\* hands on); a value the evaluation makes carries none.
CarriedSpan ==
    LET below(node) == eval(node, last.scope, Entering).val
        binding == scope_getitem(prev.scopes, last.scope, last.expr.name)
        left == eval(last.expr.left, last.scope, Entering)
        right == eval(last.expr.right, last.scope, left.st).val
        args == eval_each(last.expr.args, last.scope, Entering, <<>>)
    IN CASE last.expr.k = "Literal" -> last.expr.value.span
         [] last.expr.k = "Identifier" ->
                IF binding.found THEN binding.val.span ELSE last.expr.span
         [] last.expr.k = "Parenthesis" -> below(last.expr.expr).span
         [] last.expr.k = "Attribute" -> below(last.expr.value).span
         [] last.expr.k = "GetAttr" -> ReachedByGetAttr
         [] last.expr.k = "GetIndex" -> ReachedByGetIndex
         [] last.expr.k = "Conditional" ->
                IF below(last.expr.cond).t # "boolean" THEN NoSpan
                ELSE IF below(last.expr.cond).b THEN below(last.expr.then_expr).span
                ELSE below(last.expr.else_expr).span
         [] last.expr.k = "BinaryExpression" ->
                IF left.val.t # "unknown" /\ right.t = "unknown" THEN right.span ELSE NoSpan
         [] last.expr.k = "FunctionCall" ->
                IF any_unknown(args.vals, args.st.heap) THEN NoSpan ELSE args.vals[1].span
         [] OTHER -> NoSpan

\* C28: every value eval returns has a span.  The value is the computed one
\* unchanged when that carries a span (that of a literal, of a binding of
\* the scope, of the element a path reached, of the node below), and else
\* the computed one with the span of the evaluated node; attaching the span
\* changes no scope and no container, so that a binding of the scope keeps
\* the value, and the span, it had.
C28_SpanKeptOrAttached ==
    (Evaluated /\ last.err = NoErr) =>
        /\ last.val.span # NoSpan
        /\ Computed.err = NoErr
        /\ last.val = IF Computed.val.span # NoSpan THEN Computed.val
                      ELSE with_span(Computed.val, last.expr.span)
        /\ Computed.val.span = CarriedSpan
        /\ scopes = Computed.st.scopes
        /\ heap = Computed.st.heap
        /\ last.expr.k = "Identifier" =>
              /\ scopes = prev.scopes
              /\ heap = prev.heap

\* a name bound by an earlier a = 1 is evaluated: the value keeps the span of
\* the literal, and the binding of the scope is the one it was
C28_BindingSpanKept ==
    /\ last.expr = Identifier("a", 1)
    /\ last.err = NoErr
    /\ scope_getitem(prev.scopes, last.scope, "a").val = Integer(1, 3)
    /\ last.val = Integer(1, 3)
    /\ scope_getitem(scopes, last.scope, "a").val = Integer(1, 3)

\* a name bound by the host to a value without a span is evaluated: the
\* value has the span of the name, the binding still has none
C28_NodeSpanAttached ==
    /\ last.expr = Identifier("a", 1)
    /\ last.err = NoErr
    /\ scope_getitem(prev.scopes, last.scope, "a").val = Integer(1, NoSpan)
    /\ last.val = Integer(1, 1)
    /\ scope_getitem(scopes, last.scope, "a").val = Integer(1, NoSpan)

\* b[0] after b = [0, 1]: the path reaches the element of the literal 0, and
\* the value keeps the span of that literal, not that of the index
C28_PathSpanKept ==
    /\ last.expr.k = "GetIndex"
    /\ last.expr.on = Identifier("b", 2)
    /\ last.scope = RootScope
    /\ last.err = NoErr
    /\ last.val = Integer(0, 31)
    /\ last.expr.span = 1

\* the scopes the last call made: the children of its blocks and iterations
Children == (DOMAIN scopes) \ (DOMAIN prev.scopes)

\* the scope the last call was given, and its ancestors
RECURSIVE Ancestors(_)
Ancestors(scope) ==
    IF scope = 0 THEN {} ELSE {scope} \cup Ancestors(prev.scopes[scope].parent)

\* C29: evaluating a Block, a ForTupleExpression or a ForObjectExpression
\* leaves the variables of the scope it was given, and of every ancestor of
\* that scope, as they were: what it binds, it binds in scopes it made, each
\* of them a descendant of the scope it was given.  An attribute of a block
\* that names the key of an earlier attribute has the value the name has in
\* the scope given.
C29_ScopeUntouched ==
    (Evaluated /\ last.expr.k \in {"Block", "ForTupleExpression", "ForObjectExpression"}) =>
        /\ \A s \in DOMAIN prev.scopes : scopes[s] = prev.scopes[s]
        /\ \A s \in Ancestors(last.scope) :
              scopes[s].variables = prev.scopes[s].variables
        /\ \A s \in Children : scopes[s].parent \in {last.scope} \cup Children
        /\ (last.expr.k = "Block" /\ last.err = NoErr) =>
              \A i, j \in DOMAIN last.expr.body :
                  (/\ i < j
                   /\ last.expr.body[i].k = "Attribute"
                   /\ last.expr.body[j].k = "Attribute"
                   /\ last.expr.body[j].value = Identifier(last.expr.body[i].key.name,
                                                          last.expr.body[j].value.span)) =>
                      LET here == eval(last.expr.body[j].value, last.scope, Before)
                          result == heap[last.val.ref]
                      IN seen(result.vals[dict_find(result, last.expr.body[j].key.name)], heap)
                             = seen(here.val, here.st.heap)

\* [for k, v in c : ...] over the object of the scope: the iteration
\* variables are bound in a scope made for the iteration, not in the scope
\* given
C29_IterationBound ==
    /\ last.expr.k \in {"ForTupleExpression", "ForObjectExpression"}
    /\ last.err = NoErr
    /\ \E s \in Children :
          /\ scopes[s].parent = last.scope
          /\ last.expr.value_ident.name \in DOMAIN scopes[s].variables
          /\ ~scope_getitem(scopes, last.scope, last.expr.value_ident.name).found

\* a block t = 1, s = t: the attribute is bound in a scope made for the
\* statement, the scope given does not have it, and s is unknown
C29_AttributeBound ==
    /\ last.expr.k = "Block"
    /\ last.err = NoErr
    /\ Len(last.expr.body) >= 2
    /\ last.expr.body[1].k = "Attribute" /\ last.expr.body[1].value.k = "Literal"
    /\ last.expr.body[2].k = "Attribute" /\ last.expr.body[2].value = Identifier("t", 122)
    /\ IsUnknown(heap[last.val.ref].vals[2], {<<"t">>}, {})
    /\ \E s \in Children :
          /\ scopes[s].parent = last.scope
          /\ \E n \in DOMAIN scopes[s].variables :
                ~scope_getitem(scopes, last.scope, n).found

\* C30: evaluating a Block leaves the contents of every Object and Array
\* that existed before the call, those bound in the scope given among them,
\* as they were: the nested blocks are woven into containers the evaluation
\* made.
C30_HostContainersUntouched ==
    (Evaluated /\ last.expr.k = "Block") =>
        \A ref \in DOMAIN prev.heap : heap[ref] = prev.heap[ref]

====
